---- MODULE Spec2Model ----
(***************************************************************************)
(* Persistent piece store and session rehydration of the WebTorrent/OPFS   *)
(* client: the driver (OPFSManager), the piece store adapter               *)
(* (WebTorrentOPFSPieceStore) and the rehydrator (useWebTorrent hook).     *)
(*                                                                         *)
(* Every asynchronous method is cut at its awaits: one action per          *)
(* synchronous part.  An argument of a call is drawn in the action that    *)
(* first reads it (the chunk index in the first storage step, the buffer   *)
(* at the commit of the write, the range when the chunk is sliced); no     *)
(* code looks at it earlier, so the behaviours are the same.               *)
(***************************************************************************)
EXTENDS Integers, Sequences, FiniteSets, Bags, TLC

\* ---------------------------------------------------------------- bounds
MaxLen   == 2      \* longest chunk buffer
MaxIndex == 1      \* chunk indices are 0..MaxIndex
MaxInst  == 2      \* adapter objects constructed in one run
MaxOps   == 2      \* put/get/destroy calls in flight at the same time
MaxTime  == 2      \* createdAt values are 1..MaxTime
MaxClears == 1     \* clearAllStorage calls on a supported host in one run
MaxPieces == 4     \* a seeded transfer has 1..MaxPieces pieces
Scale    == 10     \* a progress is a number of Scale-ths: 1.0 is Scale

Hashes  == {"h1", "h2"}
NoHash  == "undefined"
FileIdx == {0, 1}
Indices == 0..MaxIndex
\* chunk buffers: <<>>, <<1>>, <<1, 2>>, ...: every byte of a buffer differs,
\* so a slice shows where it was cut
Bufs    == {[i \in 1..n |-> i] : n \in 0..MaxLen}
Undef   == 0 - 1
OptVals == {Undef} \cup (0..(MaxLen + 1))
Keys    == Hashes \X FileIdx

ChunkPrefix == "__tmp__webtorrent.chunk."

\* opfs.ts:357 with one name for every index
getChunkFileNameNoIndex(index) == <<ChunkPrefix, 0>>

\* opfs.ts:357  `__tmp__webtorrent.chunk.${index}`
getChunkFileName(index) == <<ChunkPrefix, index>>

Names == {getChunkFileName(i) : i \in Indices}

\* opfs.ts:487  f.startsWith('__tmp__webtorrent.chunk.')
IsChunkFile(name) == name[1] = ChunkPrefix

NoFile  == [exists |-> FALSE, data |-> <<>>]
File(b) == [exists |-> TRUE, data |-> b]

Min(a, b) == IF a < b THEN a ELSE b
Max(a, b) == IF a > b THEN a ELSE b

\* ArrayBuffer.prototype.slice(start, end) for non-negative arguments:
\* both ends are clamped to the length, an inverted range is empty.
Slice(buf, start, end) ==
  LET first == Min(start, Len(buf))
      final == Min(end, Len(buf))
  IN  IF final <= first THEN <<>> ELSE SubSeq(buf, first + 1, final)

\* opfs.ts:440-445  the range arithmetic of getAsync
GetRange(buffer, off, len) ==
  LET start  == IF off = Undef \/ off = 0 THEN 0 ELSE off
      length == IF len = Undef \/ len = 0 THEN Len(buffer) - start ELSE len
      end    == start + length
  IN  Slice(buffer, start, end)

VARIABLES
  dirExists,     \* torrents/{infoHash}/ exists
  files,         \* files[h][name]: the entry `name` of torrents/{h}/
  store,         \* the adapter objects, by allocation number
  nInst,         \* adapter objects allocated so far
  instances,     \* WebTorrentOPFSPieceStore.instances: key -> object (0: none)
  ops,           \* the calls in flight (a bag: two equal calls are two calls)
  lastNew,       \* event: the `new WebTorrentOPFSPieceStore` of this step
  lastCb,        \* event: the callback this step delivered to the engine
  lastPut,       \* history: per entry, the put that committed its content
  lastDel,       \* event: the entry a destroy removed in this step
  metaFiles,     \* metaFiles[h]: the entry torrent-meta/{h}.json
  rpc,           \* where loadExistingTorrents stands
  metas,         \* the result of its getAllTorrentMetas
  listFailed,    \* history: the enumeration of torrent-meta/ broke off
  torrents,      \* the transfers of the engine, with the hook's fields
  published,     \* the progress of each transfer in the hook's `torrents`
  justLoaded,    \* event: this step was the registration of the descriptors
  supported,     \* the host offers the origin private file system
  seeding,       \* the transfer seeded through the addTorrent of part_004
  inflight,      \* per transfer, the suspended add callback and removeTorrent
  error,         \* the hook's `error`: the last setError, and the transfer
  rootDirs,      \* the top-level directories that exist
  clear,         \* where clearAllStorage stands, and its history
  metaCall       \* event: the call of the descriptor store made in this step

storeVars == <<dirExists, files, store, nInst, instances, ops,
               lastNew, lastCb, lastPut, lastDel>>

hostVars == <<supported, seeding, inflight, error, rootDirs, clear, metaCall>>

rhVars == <<metaFiles, rpc, metas, listFailed, torrents, published, justLoaded,
            hostVars>>

vars == <<storeVars, rhVars>>

fsVars == <<dirExists, files>>

\* an adapter object: the fields of opfs.ts:298-304, and as history the
\* number of createTorrentDirectory calls made for it, whether destroy() was
\* called on it, whether close() was called on it, the indices of its
\* completed puts and the completed clear
\* after which it was last returned by a construction (0: none)
NoInst == [infoHash |-> NoHash, fileIndex |-> 0, torrentDir |-> NoHash,
           initialized |-> FALSE, initPromise |-> "none", initCalls |-> 0,
           destroyed |-> FALSE, closed |-> FALSE, puts |-> {}, askedAt |-> 0]

\* history: the number of the clearAllStorage that last completed with no
\* storage failure, when none has started since (0 otherwise)
AfterClear == IF clear.pc = "idle" /\ clear.clean THEN clear.n ELSE 0

\* the adapter object was returned by a construction after that clear
AskedAfterClear(x) == store[x].askedAt # 0 /\ store[x].askedAt = AfterClear

\* a call in flight: early/late/post/shut tell whether it was issued while
\* the initialization was pending / after destroy() had been called / on an
\* object requested after a completed clear / after close() had been called; a destroy has the entries it
\* listed and has not yet tried to delete (todo) and those whose deletion
\* failed (kept)
NewOp(kind, x, pc) ==
  [kind |-> kind, inst |-> x, pc |-> pc, index |-> 0,
   early |-> FALSE, late |-> FALSE, post |-> AskedAfterClear(x),
   shut |-> store[x].closed, todo |-> {}, kept |-> {}]

NoNew == [hash |-> NoHash, fileIndex |-> 0, prev |-> 0, ret |-> 0,
          threw |-> FALSE]

\* the put that committed an entry's content: its adapter object, its chunk
\* index, its buffer,
\* and whether it committed before destroy() was called on that object
NoPut == [inst |-> 0, index |-> 0, buf |-> <<>>, pre |-> FALSE]

\* a callback: the call (kind, inst, index, range or buffer), the result
\* (err, hasData, data) and, for a get that read the entry, what it found
\* there (seen), the put that had committed it (writer) and whether the
\* storage failed under the read (ioFail); for a put that committed, the
\* content the entry had before (replaced); for a destroy, the listed
\* entries it did not try to delete (left) and those whose deletion failed
\* (kept); nth is the number of this invocation among those of its call
NoCb == [kind |-> "none", inst |-> 0, index |-> 0, off |-> Undef,
         len |-> Undef, buf |-> <<>>, err |-> "", hasData |-> FALSE,
         data |-> <<>>, seen |-> NoFile, writer |-> NoPut, ioFail |-> FALSE,
         early |-> FALSE, late |-> FALSE, post |-> FALSE, shut |-> FALSE,
         nth |-> 1, replaced |-> <<>>,
         left |-> {}, kept |-> {}]

NoDel == [by |-> 0, writer |-> 0]

KeyOf(x) == <<store[x].infoHash, store[x].fileIndex>>

Live == 1..nInst

InFlight == BagToSet(ops)

\* an event variable holds the event of the step into the state, or nothing
QuietNew == lastNew' = NoNew
QuietCb  == lastCb' = NoCb
QuietDel == lastDel' = NoDel

InitStoreVars ==
  /\ dirExists = [h \in Hashes |-> FALSE]
  /\ files = [h \in Hashes |-> [n \in Names |-> NoFile]]
  /\ store = [x \in 1..MaxInst |-> NoInst]
  /\ nInst = 0
  /\ instances = [k \in Keys |-> 0]
  /\ ops = EmptyBag
  /\ lastNew = NoNew
  /\ lastCb = NoCb
  /\ lastPut = [h \in Hashes |-> [n \in Names |-> NoPut]]
  /\ lastDel = NoDel

\* ------------------------------------------------------------ construction
\* Construct without the registry lookup of opfs.ts:311-314: every request
\* builds and registers a new object.
ConstructNoReuse(h, f) ==
  /\ h # NoHash
  /\ nInst < MaxInst
  /\ nInst' = nInst + 1
  /\ store' = [store EXCEPT ![nInst + 1] =
                 [infoHash |-> h, fileIndex |-> f, torrentDir |-> NoHash,
                  initialized |-> FALSE, initPromise |-> "pending",
                  initCalls |-> 1, destroyed |-> FALSE, closed |-> FALSE, puts |-> {},
                  askedAt |-> AfterClear]]
  /\ instances' = [instances EXCEPT ![<<h, f>>] = nInst + 1]
  /\ lastNew' = [hash |-> h, fileIndex |-> f, prev |-> instances[<<h, f>>],
                 ret |-> nInst + 1, threw |-> FALSE]
  /\ UNCHANGED <<fsVars, ops, lastPut>>
  /\ lastCb' = NoCb /\ lastDel' = NoDel
  /\ UNCHANGED rhVars

\* The constructor with the test of the identity (opfs.ts:321-324) moved
\* behind the start of initializeAsync (opfs.ts:331): the object without an
\* identity is built and its initialization started before the throw.
ConstructValidatesLast(h, f) ==
  /\ IF h # NoHash /\ instances[<<h, f>>] # 0
     THEN /\ lastNew' = [hash |-> h, fileIndex |-> f, prev |-> instances[<<h, f>>],
                         ret |-> instances[<<h, f>>], threw |-> FALSE]
          /\ store' = [store EXCEPT ![instances[<<h, f>>]].askedAt = AfterClear]
          /\ UNCHANGED <<nInst, instances>>
     ELSE /\ nInst < MaxInst
          /\ nInst' = nInst + 1
          /\ store' = [store EXCEPT ![nInst + 1] =
                         [infoHash |-> h, fileIndex |-> f, torrentDir |-> NoHash,
                          initialized |-> FALSE, initPromise |-> "pending",
                          initCalls |-> 1, destroyed |-> FALSE, closed |-> FALSE, puts |-> {},
                          askedAt |-> AfterClear]]
          /\ IF h = NoHash
             THEN /\ UNCHANGED instances
                  /\ lastNew' = [hash |-> h, fileIndex |-> f, prev |-> 0, ret |-> 0,
                                 threw |-> TRUE]
             ELSE /\ instances' = [instances EXCEPT ![<<h, f>>] = nInst + 1]
                  /\ lastNew' = [hash |-> h, fileIndex |-> f,
                                 prev |-> instances[<<h, f>>],
                                 ret |-> nInst + 1, threw |-> FALSE]
  /\ UNCHANGED <<fsVars, ops, lastPut>>
  /\ QuietCb /\ QuietDel
  /\ UNCHANGED rhVars

\* opfs.ts:307-333  constructor, with the synchronous start of
\* initializeAsync (opfs.ts:335-339) and createTorrentDirectory (opfs.ts:48).
\* The driver is initialized before any transfer is registered (the hook
\* awaits opfsManager.initialize() first), so torrentsDir is set here.
Construct(h, f) ==
  /\ IF h # NoHash /\ instances[<<h, f>>] # 0
     THEN /\ lastNew' = [hash |-> h, fileIndex |-> f, prev |-> instances[<<h, f>>],
                         ret |-> instances[<<h, f>>], threw |-> FALSE]
          /\ store' = [store EXCEPT ![instances[<<h, f>>]].askedAt = AfterClear]
          /\ UNCHANGED <<nInst, instances>>
     ELSE IF h = NoHash
     THEN /\ lastNew' = [hash |-> h, fileIndex |-> f, prev |-> 0, ret |-> 0,
                         threw |-> TRUE]
          /\ UNCHANGED <<store, nInst, instances>>
     ELSE /\ nInst < MaxInst
          /\ nInst' = nInst + 1
          /\ store' = [store EXCEPT ![nInst + 1] =
                         [infoHash |-> h, fileIndex |-> f, torrentDir |-> NoHash,
                          initialized |-> FALSE, initPromise |-> "pending",
                          initCalls |-> 1, destroyed |-> FALSE, closed |-> FALSE, puts |-> {},
                          askedAt |-> AfterClear]]
          /\ instances' = [instances EXCEPT ![<<h, f>>] = nInst + 1]
          /\ lastNew' = [hash |-> h, fileIndex |-> f, prev |-> instances[<<h, f>>],
                         ret |-> nInst + 1, threw |-> FALSE]
  /\ UNCHANGED <<fsVars, ops, lastPut>>
  /\ QuietCb /\ QuietDel
  /\ UNCHANGED rhVars

\* opfs.ts:339-340 with opfs.ts:53: getDirectoryHandle(infoHash, {create})
\* returns; the handle and the flag are set.
InitResolve(x) ==
  /\ x \in Live
  /\ store[x].initPromise = "pending"
  /\ "torrents" \in rootDirs
  /\ dirExists' = [dirExists EXCEPT ![store[x].infoHash] = TRUE]
  /\ store' = [store EXCEPT ![x].torrentDir = store[x].infoHash,
                            ![x].initialized = TRUE,
                            ![x].initPromise = "fulfilled"]
  /\ UNCHANGED <<files, nInst, instances, ops, lastPut>>
  /\ QuietNew /\ QuietCb /\ QuietDel
  /\ UNCHANGED rhVars

\* the rejection with the failed adapter taken out of the registry
InitRejectUnregisters(x) ==
  /\ x \in Live
  /\ store[x].initPromise = "pending"
  /\ store' = [store EXCEPT ![x].initPromise = "rejected"]
  /\ instances' = [k \in Keys |-> IF instances[k] = x THEN 0 ELSE instances[k]]
  /\ UNCHANGED <<fsVars, nInst, ops, lastPut>>
  /\ QuietNew /\ QuietCb /\ QuietDel
  /\ UNCHANGED rhVars

\* opfs.ts:341-344: getDirectoryHandle fails, the task rejects.
InitReject(x) ==
  /\ x \in Live
  /\ store[x].initPromise = "pending"
  /\ store' = [store EXCEPT ![x].initPromise = "rejected"]
  /\ UNCHANGED <<fsVars, nInst, instances, ops, lastPut>>
  /\ QuietNew /\ QuietCb /\ QuietDel
  /\ UNCHANGED rhVars

\* ------------------------------------------------------------ calls in flight
Issue(op) ==
  /\ BagCardinality(ops) < MaxOps
  /\ ops' = ops (+) SetToBag({op})

Advance(op, next) == ops' = (ops (-) SetToBag({op})) (+) SetToBag({next})

\* the callback of the call is invoked with `rec`
Deliver(op, rec) ==
  /\ lastCb' = rec
  /\ ops' = ops (-) SetToBag({op})

CbBase(op) ==
  [NoCb EXCEPT !.kind = op.kind, !.inst = op.inst, !.index = op.index,
               !.early = op.early, !.late = op.late, !.post = op.post,
               !.shut = op.shut]

\* ---------------------------------------------------------------------- put
\* opfs.ts:361-373  put() starts putAsync, which suspends in ensureInitialized
Put(x) ==
  /\ x \in Live
  /\ Issue([NewOp("put", x, "await") EXCEPT
              !.early = (store[x].initPromise = "pending"),
              !.late = store[x].destroyed])
  /\ UNCHANGED <<fsVars, store, nInst, instances, lastPut>>
  /\ QuietNew /\ QuietCb /\ QuietDel
  /\ UNCHANGED rhVars

\* opfs.ts:347-354 and 373-380 with opfs.ts:130: ensureInitialized returns or
\* throws the rejection of the memoized task; then getFileHandle(name,
\* {create: true}) creates the entry, empty, when it is not there.
PutOpen(op, index, fails) ==
  /\ op \in InFlight
  /\ op.kind = "put" /\ op.pc = "await"
  /\ store[op.inst].initPromise # "pending"
  /\ LET x == op.inst
         h == store[x].torrentDir
         n == getChunkFileName(index)
     IN  IF store[x].initPromise = "rejected"
         THEN /\ Deliver(op, [CbBase(op) EXCEPT !.err = "InitFailed"])
              /\ UNCHANGED <<fsVars, lastPut>>
         ELSE IF fails \/ ~dirExists[h]
         THEN /\ Deliver(op, [CbBase(op) EXCEPT !.index = index,
                                                !.err = "WriteFailed",
                                                !.ioFail = fails])
              /\ UNCHANGED <<fsVars, lastPut>>
         ELSE /\ Advance(op, [op EXCEPT !.pc = "write", !.index = index])
              /\ files' = [files EXCEPT ![h][n] =
                             IF files[h][n].exists THEN files[h][n] ELSE File(<<>>)]
              /\ lastPut' = [lastPut EXCEPT ![h][n] =
                               IF files[h][n].exists THEN lastPut[h][n] ELSE NoPut]
              /\ UNCHANGED dirExists
              /\ QuietCb
  /\ UNCHANGED <<store, nInst, instances>>
  /\ QuietNew /\ QuietDel
  /\ UNCHANGED rhVars

\* opfs.ts:131-133 with createWritable({keepExistingData: true}): the data
\* is written over the start of the old content
writeFileKeepExistingData(old, data) ==
  data \o SubSeq(old, Len(data) + 1, Len(old))

\* opfs.ts:131-133  createWritable(), write(data), close(): the new content
\* of an entry whose content was `old`; the writable starts empty
writeFile(old, data) == data

\* the commit of a put whose failure is not passed to the callback
PutCommitSilent(op, buf, fails) ==
  /\ op \in InFlight
  /\ op.kind = "put" /\ op.pc = "write"
  /\ LET x == op.inst
         h == store[x].torrentDir
         n == getChunkFileName(op.index)
     IN  IF fails \/ ~dirExists[h] \/ ~files[h][n].exists
         THEN /\ Deliver(op, [CbBase(op) EXCEPT !.buf = buf, !.ioFail = fails])
              /\ UNCHANGED <<fsVars, store, lastPut>>
         ELSE /\ files' = [files EXCEPT ![h][n] = File(writeFile(files[h][n].data, buf))]
              /\ lastPut' = [lastPut EXCEPT ![h][n] =
                               [inst |-> x, index |-> op.index, buf |-> buf,
                                pre |-> ~store[x].destroyed]]
              /\ store' = [store EXCEPT ![x].puts = @ \cup {op.index}]
              /\ Deliver(op, [CbBase(op) EXCEPT !.buf = buf,
                                                !.replaced = files[h][n].data])
              /\ UNCHANGED dirExists
  /\ UNCHANGED <<nInst, instances>>
  /\ QuietNew /\ QuietDel
  /\ UNCHANGED rhVars

\* opfs.ts:131-136  createWritable / write / close: the entry is replaced by
\* buf when close() commits; on failure nothing is committed and the error
\* goes to the callback (opfs.ts:366-369).
PutCommit(op, buf, fails) ==
  /\ op \in InFlight
  /\ op.kind = "put" /\ op.pc = "write"
  /\ LET x == op.inst
         h == store[x].torrentDir
         n == getChunkFileName(op.index)
     IN  IF fails \/ ~dirExists[h] \/ ~files[h][n].exists
         THEN /\ Deliver(op, [CbBase(op) EXCEPT !.buf = buf, !.err = "WriteFailed",
                                                !.ioFail = fails])
              /\ UNCHANGED <<fsVars, store, lastPut>>
         ELSE /\ files' = [files EXCEPT ![h][n] = File(writeFile(files[h][n].data, buf))]
              /\ lastPut' = [lastPut EXCEPT ![h][n] =
                               [inst |-> x, index |-> op.index, buf |-> buf,
                                pre |-> ~store[x].destroyed]]
              /\ store' = [store EXCEPT ![x].puts = @ \cup {op.index}]
              /\ Deliver(op, [CbBase(op) EXCEPT !.buf = buf,
                                                !.replaced = files[h][n].data])
              /\ UNCHANGED dirExists
  /\ UNCHANGED <<nInst, instances>>
  /\ QuietNew /\ QuietDel
  /\ UNCHANGED rhVars

\* ---------------------------------------------------------------------- get
\* get() without the test of this.initialized (opfs.ts:393-397)
GetWithoutInitCheck(x) ==
  /\ x \in Live
  /\ Issue([NewOp("get", x, "read") EXCEPT !.late = store[x].destroyed])
  /\ UNCHANGED <<fsVars, store, nInst, instances, lastPut>>
  /\ QuietNew /\ QuietCb /\ QuietDel
  /\ UNCHANGED rhVars

\* opfs.ts:383-399  the synchronous part of get(): a store that is not yet
\* initialized answers with an error at once; otherwise getAsync starts.
Get(x) ==
  /\ x \in Live
  /\ IF ~store[x].initialized
     THEN /\ lastCb' = [NoCb EXCEPT !.kind = "get", !.inst = x,
                                    !.err = "Store not initialized",
                                    !.early = (store[x].initPromise = "pending"),
                                    !.late = store[x].destroyed,
                                    !.post = AskedAfterClear(x),
                                    !.shut = store[x].closed]
          /\ UNCHANGED ops
     ELSE /\ Issue([NewOp("get", x, "read") EXCEPT !.late = store[x].destroyed])
          /\ QuietCb
  /\ UNCHANGED <<fsVars, store, nInst, instances, lastPut>>
  /\ QuietNew /\ QuietDel
  /\ UNCHANGED rhVars

\* getAsync without the test of buffer.byteLength === 0 (opfs.ts:435-438)
GetReadEmptyBuffer(op, index, off, len, fails) ==
  /\ op \in InFlight
  /\ op.kind = "get" /\ op.pc = "read"
  /\ LET x    == op.inst
         h    == store[x].torrentDir
         n    == getChunkFileName(index)
         file == IF dirExists[h] THEN files[h][n] ELSE NoFile
         base == [CbBase(op) EXCEPT !.index = index, !.off = off, !.len = len,
                                    !.seen = file, !.writer = lastPut[h][n],
                                    !.ioFail = fails]
     IN  IF fails \/ ~file.exists
         THEN Deliver(op, base)
         ELSE Deliver(op, [base EXCEPT !.hasData = TRUE,
                                       !.data = GetRange(file.data, off, len)])
  /\ UNCHANGED <<fsVars, store, nInst, instances, lastPut>>
  /\ QuietNew /\ QuietDel
  /\ UNCHANGED rhVars

\* opfs.ts:414-454 with readFile (opfs.ts:139-152): a missing entry, a failed
\* read and an empty buffer all give null; otherwise the slice of the range.
\* opfs.ts:400-407: a buffer goes to cb(null, Buffer), null to cb(null, null).
GetRead(op, index, off, len, fails) ==
  /\ op \in InFlight
  /\ op.kind = "get" /\ op.pc = "read"
  /\ LET x    == op.inst
         h    == store[x].torrentDir
         n    == getChunkFileName(index)
         file == IF dirExists[h] THEN files[h][n] ELSE NoFile
         base == [CbBase(op) EXCEPT !.index = index, !.off = off, !.len = len,
                                    !.seen = file, !.writer = lastPut[h][n],
                                    !.ioFail = fails]
     IN  IF fails \/ ~file.exists \/ Len(file.data) = 0
         THEN Deliver(op, base)
         ELSE Deliver(op, [base EXCEPT !.hasData = TRUE,
                                       !.data = GetRange(file.data, off, len)])
  /\ UNCHANGED <<fsVars, store, nInst, instances, lastPut>>
  /\ QuietNew /\ QuietDel
  /\ UNCHANGED rhVars

\* ------------------------------------------------------- a throwing callback
\* opfs.ts:362-369, 399-411, 466-477  `.then(() => cb(...)).catch(error =>
\* cb(error))`: when the callback invoked by the then-handler throws, the
\* promise of then() rejects and the catch-handler invokes the callback of
\* the same call again, with what was thrown.  The step follows the
\* invocation that threw; nth counts the invocations of the callback.
CallbackThrew ==
  /\ lastCb.kind \in {"put", "get", "destroy"}
  /\ lastCb.err = ""
  /\ lastCb.nth = 1
  /\ lastCb' = [lastCb EXCEPT !.err = "CallbackThrew", !.hasData = FALSE,
                              !.data = <<>>, !.nth = 2]
  /\ UNCHANGED <<fsVars, store, nInst, instances, ops, lastPut>>
  /\ QuietNew /\ QuietDel
  /\ UNCHANGED rhVars

\* -------------------------------------------------------------------- close
\* close() that releases the handle of the directory
CloseReleasesHandle(x) ==
  /\ x \in Live
  /\ lastCb' = [NoCb EXCEPT !.kind = "close", !.inst = x,
                            !.late = store[x].destroyed, !.shut = store[x].closed]
  /\ store' = [store EXCEPT ![x].closed = TRUE, ![x].torrentDir = NoHash,
                            ![x].initialized = FALSE]
  /\ UNCHANGED <<fsVars, nInst, instances, ops, lastPut>>
  /\ QuietNew /\ QuietDel
  /\ UNCHANGED rhVars

\* opfs.ts:456-460  close(cb): the callback is called without error and
\* nothing else is done (closed is history, the object has no such field)
Close(x) ==
  /\ x \in Live
  /\ lastCb' = [NoCb EXCEPT !.kind = "close", !.inst = x,
                            !.late = store[x].destroyed, !.shut = store[x].closed]
  /\ store' = [store EXCEPT ![x].closed = TRUE]
  /\ UNCHANGED <<fsVars, nInst, instances, ops, lastPut>>
  /\ QuietNew /\ QuietDel
  /\ UNCHANGED rhVars

\* ------------------------------------------------------------------ destroy
\* destroy() without the instances.delete(key) of opfs.ts:464
DestroyKeepsRegistry(x) ==
  /\ x \in Live
  /\ store' = [store EXCEPT ![x].destroyed = TRUE]
  /\ Issue(NewOp("destroy", x, "await"))
  /\ UNCHANGED <<fsVars, nInst, instances, lastPut>>
  /\ QuietNew /\ QuietCb /\ QuietDel
  /\ UNCHANGED rhVars

\* opfs.ts:462-466  destroy(): the key leaves the registry, destroyAsync starts
Destroy(x) ==
  /\ x \in Live
  /\ instances' = [instances EXCEPT ![KeyOf(x)] = 0]
  /\ store' = [store EXCEPT ![x].destroyed = TRUE]
  /\ Issue(NewOp("destroy", x, "await"))
  /\ UNCHANGED <<fsVars, nInst, lastPut>>
  /\ QuietNew /\ QuietCb /\ QuietDel
  /\ UNCHANGED rhVars

\* opfs.ts:183-200  listTorrentFiles: the file names of torrents/{infoHash}/,
\* [] when the directory cannot be opened or listed
listTorrentFiles(h, fails) ==
  IF fails \/ ~dirExists[h] THEN {} ELSE {n \in Names : files[h][n].exists}

\* opfs.ts:480-487  destroyAsync after ensureInitialized: the chunk files of
\* the transfer's directory are listed; a rejected initialization goes to the
\* callback (opfs.ts:472-476).
DestroyList(op, fails) ==
  /\ op \in InFlight
  /\ op.kind = "destroy" /\ op.pc = "await"
  /\ store[op.inst].initPromise # "pending"
  /\ IF store[op.inst].initPromise = "rejected"
     THEN Deliver(op, [CbBase(op) EXCEPT !.err = "InitFailed"])
     ELSE /\ Advance(op, [op EXCEPT !.pc = "delete",
                 !.todo = {n \in listTorrentFiles(store[op.inst].infoHash, fails) :
                             IsChunkFile(n)}])
          /\ QuietCb
  /\ UNCHANGED <<fsVars, store, nInst, instances, lastPut>>
  /\ QuietNew /\ QuietDel
  /\ UNCHANGED rhVars

\* the loop of opfs.ts:489-491 with a deleteFile that throws: the first
\* failure ends the loop and destroyAsync (caught at opfs.ts:494)
DestroyDeleteOrAbort(op, n, fails) ==
  /\ op \in InFlight
  /\ op.kind = "destroy" /\ op.pc = "delete"
  /\ n \in op.todo
  /\ LET h == store[op.inst].torrentDir
     IN  IF fails \/ ~dirExists[h] \/ ~files[h][n].exists
         THEN /\ Deliver(op, [CbBase(op) EXCEPT !.left = op.todo \ {n},
                                                !.kept = op.kept \cup {n}])
              /\ UNCHANGED <<files, lastPut>> /\ QuietDel
         ELSE /\ Advance(op, [op EXCEPT !.todo = @ \ {n}])
              /\ files' = [files EXCEPT ![h][n] = NoFile]
              /\ lastDel' = [by |-> op.inst, writer |-> lastPut[h][n].inst]
              /\ lastPut' = [lastPut EXCEPT ![h][n] = NoPut]
              /\ QuietCb
  /\ UNCHANGED <<dirExists, store, nInst, instances>>
  /\ QuietNew
  /\ UNCHANGED rhVars

\* opfs.ts:489-491 with deleteFile (opfs.ts:154-163): removeEntry of one
\* listed chunk file; a failure is logged and the loop goes on.
DestroyDelete(op, n, fails) ==
  /\ op \in InFlight
  /\ op.kind = "destroy" /\ op.pc = "delete"
  /\ n \in op.todo
  /\ LET h == store[op.inst].torrentDir
     IN  IF fails \/ ~dirExists[h] \/ ~files[h][n].exists
         THEN /\ Advance(op, [op EXCEPT !.todo = @ \ {n}, !.kept = @ \cup {n}])
              /\ UNCHANGED <<files, lastPut>> /\ QuietDel
         ELSE /\ Advance(op, [op EXCEPT !.todo = @ \ {n}])
              /\ files' = [files EXCEPT ![h][n] = NoFile]
              /\ lastDel' = [by |-> op.inst, writer |-> lastPut[h][n].inst]
              /\ lastPut' = [lastPut EXCEPT ![h][n] = NoPut]
  /\ UNCHANGED <<dirExists, store, nInst, instances>>
  /\ QuietNew /\ QuietCb
  /\ UNCHANGED rhVars

\* opfs.ts:467-471  destroyAsync returned: cb()
DestroyDone(op) ==
  /\ op \in InFlight
  /\ op.kind = "destroy" /\ op.pc = "delete"
  /\ op.todo = {}
  /\ Deliver(op, [CbBase(op) EXCEPT !.left = op.todo, !.kept = op.kept])
  /\ UNCHANGED <<fsVars, store, nInst, instances, lastPut>>
  /\ QuietNew /\ QuietDel
  /\ UNCHANGED rhVars

\* --------------------------------------------------------- descriptor store
\* A descriptor in memory (StoredTorrentMeta, opfs.ts:6-19): the identity,
\* createdAt and the two optional flags, each true, false or undefined.
\* name, magnetURI, length and files are strings and numbers that no code of
\* the driver or the rehydrator looks into.
Flags == {"undefined", "false", "true"}

Descriptors == [infoHash : Hashes, createdAt : 1..MaxTime, isSeeded : Flags,
                isVerified : Flags]

NoDescriptor == [infoHash |-> NoHash, createdAt |-> 0, isSeeded |-> "undefined",
                 isVerified |-> "undefined"]

\* `if (meta.isSeeded)`: the truthiness of an optional flag
Truthy(flag) == flag = "true"

\* JSON.stringify with a property of value undefined written as false
StringifyUndefinedAsFalse(meta) ==
  [k \in {"infoHash", "createdAt", "isSeeded", "isVerified"} |->
     IF k \in {"isSeeded", "isVerified"} /\ meta[k] = "undefined" THEN "false"
     ELSE meta[k]]

\* opfs.ts:64  JSON.stringify(meta, null, 2): the text holds the properties of
\* the object whose value is not undefined
Stringify(meta) ==
  [k \in {"infoHash", "createdAt"} \cup
         {f \in {"isSeeded", "isVerified"} : meta[f] # "undefined"} |-> meta[k]]

\* opfs.ts:79 and 98  JSON.parse(text): a property the text does not hold
\* reads as undefined
Parse(text) ==
  [infoHash   |-> text.infoHash,
   createdAt  |-> text.createdAt,
   isSeeded   |-> IF "isSeeded" \in DOMAIN text THEN text.isSeeded ELSE "undefined",
   isVerified |-> IF "isVerified" \in DOMAIN text THEN text.isVerified
                  ELSE "undefined"]

\* an entry of torrent-meta/: absent, text that JSON.parse rejects, or the
\* text of a descriptor
NoMeta  == [state |-> "absent"]
BadMeta == [state |-> "malformed"]
MetaFile(text) == [state |-> "ok", text |-> text]
Metas   == {MetaFile(Stringify(d)) : d \in Descriptors}

\* the descriptor files that can be stored under torrent-meta/{h}.json
MetasOf(h) == {MetaFile(Stringify(d)) : d \in {e \in Descriptors : e.infoHash = h}}

\* the object JSON.parse gives for the entry of h
Descriptor(h) == Parse(metaFiles[h].text)

ValidMetas == {h \in Hashes : metaFiles[h].state = "ok"}

Orderings(S) ==
  {sq \in [1..Cardinality(S) -> S] : \A i, j \in 1..Cardinality(S) : i # j => sq[i] # sq[j]}

\* opfs.ts:110  sort((a, b) => b.createdAt - a.createdAt)
SortedDesc(sq) == \A i \in 1..(Len(sq) - 1) : sq[i].createdAt >= sq[i + 1].createdAt

\* the entries of torrent-meta/
Existing == {h \in Hashes : metaFiles[h].state # "absent"}

\* opfs.ts:98  JSON.parse(text) returns
Parses(h) == metaFiles[h].state = "ok"

\* opfs.ts:93-104 with the loop ended by the first entry that does not parse
PushedUntilMalformed(enum) ==
  LET bad == {i \in 1..Len(enum) : ~Parses(enum[i])}
      n   == IF bad = {} THEN Len(enum)
             ELSE (CHOOSE i \in bad : \A j \in bad : i <= j) - 1
  IN  [i \in 1..n |-> Descriptor(enum[i])]

\* opfs.ts:93-104  the loop over the entries in the order `enum` of the
\* enumeration: the parsed text of an entry is pushed; an entry that does
\* not parse is logged and skipped
Pushed(enum) ==
  LET ok == SelectSeq(enum, Parses)
  IN  [i \in 1..Len(ok) |-> Descriptor(ok[i])]

\* opfs.ts:110 with the comparator a.createdAt - b.createdAt
CompareAscending(a, b) == a.createdAt - b.createdAt

\* opfs.ts:110  the comparator (a, b) => b.createdAt - a.createdAt
Compare(a, b) == b.createdAt - a.createdAt

\* Array.prototype.sort with that comparator (opfs.ts:110); the sort is
\* stable: x goes behind the elements that do not have to follow it
Insert(sq, x) ==
  LET k == Cardinality({i \in 1..Len(sq) : Compare(sq[i], x) <= 0})
  IN  SubSeq(sq, 1, k) \o <<x>> \o SubSeq(sq, k + 1, Len(sq))

RECURSIVE Sort(_)
Sort(sq) ==
  IF sq = <<>> THEN <<>>
  ELSE Insert(Sort(SubSeq(sq, 1, Len(sq) - 1)), sq[Len(sq)])

\* opfs.ts:89-111  getAllTorrentMetas over the entries the enumeration
\* yielded, in any order: the entries that parse, sorted by createdAt
\* descending.
getAllTorrentMetas(listed) ==
  {Sort(Pushed(enum)) : enum \in Orderings(listed \cap Existing)}

\* opfs.ts:72-87  getTorrentMeta: the parsed text of the entry; null when
\* the entry is missing, when the read fails and when the text does not
\* parse (every error is caught)
getTorrentMeta(h, fails) ==
  IF fails \/ "torrent-meta" \notin rootDirs \/ ~Parses(h) THEN NoDescriptor
  ELSE Descriptor(h)

\* opfs.ts:113-122  deleteTorrentMeta: removeEntry; a failure is logged
deleteTorrentMeta(h, fails) ==
  IF fails \/ "torrent-meta" \notin rootDirs THEN metaFiles
  ELSE [metaFiles EXCEPT ![h] = NoMeta]

\* opfs.ts:56-70  storeTorrentMeta: the text of meta replaces the entry
\* torrent-meta/{meta.infoHash}.json when close() commits; on failure the
\* entry is as before and the call throws.
storeTorrentMeta(meta, fails) ==
  IF fails \/ "torrent-meta" \notin rootDirs THEN metaFiles
  ELSE [metaFiles EXCEPT ![meta.infoHash] = MetaFile(Stringify(meta))]

\* a call of the driver (of the descriptor store, or a deletion): the
\* operation, its identity or descriptor, the name of the entry, the entry it found (prev), the order of the enumeration
\* (enum) and whether it broke off (failed), whether the call threw, and
\* the descriptor (ret; NoDescriptor is null) or the list (all) it returned
NoMetaCall == [op |-> "none", hash |-> NoHash, name |-> <<>>,
               arg |-> NoDescriptor, prev |-> NoMeta,
               enum |-> <<>>, failed |-> FALSE, threw |-> FALSE,
               ret |-> NoDescriptor, all |-> <<>>]

\* opfs.ts:56-70  opfsManager.storeTorrentMeta(meta)
MetaStore(meta, fails) ==
  /\ metaFiles' = storeTorrentMeta(meta, fails)
  /\ metaCall' = [NoMetaCall EXCEPT !.op = "store", !.hash = meta.infoHash,
                                    !.arg = meta, !.prev = metaFiles[meta.infoHash],
                                    !.threw = (fails \/ "torrent-meta" \notin rootDirs)]
  /\ UNCHANGED <<rpc, metas, listFailed, torrents, published, justLoaded>>
  /\ UNCHANGED <<supported, seeding, inflight, error, rootDirs, clear>>
  /\ UNCHANGED storeVars

\* opfs.ts:72-87  opfsManager.getTorrentMeta(infoHash)
MetaGet(h, fails) ==
  /\ metaCall' = [NoMetaCall EXCEPT !.op = "get", !.hash = h, !.prev = metaFiles[h],
                                    !.failed = fails,
                                    !.ret = getTorrentMeta(h, fails)]
  /\ UNCHANGED <<metaFiles, rpc, metas, listFailed, torrents, published, justLoaded>>
  /\ UNCHANGED <<supported, seeding, inflight, error, rootDirs, clear>>
  /\ UNCHANGED storeVars

\* opfs.ts:89-111  opfsManager.getAllTorrentMetas(): the enumeration yields
\* the entries in the order `enum`, all of them unless it breaks off
MetaGetAll(enum, fails) ==
  /\ enum \in UNION {Orderings(S) : S \in SUBSET Existing}
  /\ ~fails => Len(enum) = Cardinality(Existing)
  /\ fails => Len(enum) < Cardinality(Existing)
  /\ metaCall' = [NoMetaCall EXCEPT !.op = "getAll", !.enum = enum, !.failed = fails,
                                    !.all = Sort(Pushed(enum))]
  /\ UNCHANGED <<metaFiles, rpc, metas, listFailed, torrents, published, justLoaded>>
  /\ UNCHANGED <<supported, seeding, inflight, error, rootDirs, clear>>
  /\ UNCHANGED storeVars

\* opfs.ts:113-122  opfsManager.deleteTorrentMeta(infoHash)
MetaDelete(h, fails) ==
  /\ metaFiles' = deleteTorrentMeta(h, fails)
  /\ metaCall' = [NoMetaCall EXCEPT !.op = "delete", !.hash = h, !.prev = metaFiles[h],
                                    !.failed = (fails \/ metaFiles[h] = NoMeta)]
  /\ UNCHANGED <<rpc, metas, listFailed, torrents, published, justLoaded>>
  /\ UNCHANGED <<supported, seeding, inflight, error, rootDirs, clear>>
  /\ UNCHANGED storeVars

\* opfs.ts:154-163 with the failure of removeEntry thrown to the caller
DeleteFileRethrows(h, n, fails) ==
  /\ dirExists[h]
  /\ LET absent == ~files[h][n].exists
     IN  /\ IF fails \/ absent
            THEN UNCHANGED <<files, lastPut>>
            ELSE /\ files' = [files EXCEPT ![h][n] = NoFile]
                 /\ lastPut' = [lastPut EXCEPT ![h][n] = NoPut]
         /\ metaCall' = [NoMetaCall EXCEPT !.op = "deleteFile", !.hash = h, !.name = n,
                                           !.failed = (fails \/ absent),
                                           !.threw = (fails \/ absent)]
  /\ UNCHANGED <<metaFiles, rpc, metas, listFailed, torrents, published, justLoaded>>
  /\ UNCHANGED <<supported, seeding, inflight, error, rootDirs, clear>>
  /\ UNCHANGED <<dirExists, store, nInst, instances, ops, lastNew, lastCb, lastDel>>

\* opfs.ts:154-163  opfsManager.deleteFile(torrentDir, fileName) on the
\* handle of torrents/{h}/: removeEntry; a missing entry and any other
\* failure are caught and logged
DeleteFile(h, n, fails) ==
  /\ dirExists[h]
  /\ LET absent == ~files[h][n].exists
     IN  /\ IF fails \/ absent
            THEN UNCHANGED <<files, lastPut>>
            ELSE /\ files' = [files EXCEPT ![h][n] = NoFile]
                 /\ lastPut' = [lastPut EXCEPT ![h][n] = NoPut]
         /\ metaCall' = [NoMetaCall EXCEPT !.op = "deleteFile", !.hash = h, !.name = n,
                                           !.failed = (fails \/ absent)]
  /\ UNCHANGED <<metaFiles, rpc, metas, listFailed, torrents, published, justLoaded>>
  /\ UNCHANGED <<supported, seeding, inflight, error, rootDirs, clear>>
  /\ UNCHANGED <<dirExists, store, nInst, instances, ops, lastNew, lastCb, lastDel>>

\* opfs.ts:165-174  opfsManager.deleteTorrentDirectory(infoHash):
\* removeEntry(infoHash, {recursive: true}) removes torrents/{h}/ with its
\* entries; a missing directory and any other failure are caught and logged
DeleteTorrentDirectory(h, fails) ==
  /\ LET absent == ~dirExists[h] \/ "torrents" \notin rootDirs
     IN  /\ IF fails \/ absent
            THEN UNCHANGED <<dirExists, files, lastPut>>
            ELSE /\ dirExists' = [dirExists EXCEPT ![h] = FALSE]
                 /\ files' = [files EXCEPT ![h] = [n \in Names |-> NoFile]]
                 /\ lastPut' = [lastPut EXCEPT ![h] = [n \in Names |-> NoPut]]
         /\ metaCall' = [NoMetaCall EXCEPT !.op = "deleteTorrentDirectory", !.hash = h,
                                           !.failed = (fails \/ absent)]
  /\ UNCHANGED <<metaFiles, rpc, metas, listFailed, torrents, published, justLoaded>>
  /\ UNCHANGED <<supported, seeding, inflight, error, rootDirs, clear>>
  /\ UNCHANGED <<store, nInst, instances, ops, lastNew, lastCb, lastDel>>

\* ------------------------------------------------------------- rehydration
\* part_005:12  opfsSupported in the closures of the first render.
\* loadExistingTorrents is memoized with no dependencies (part_005:142) and
\* is called from the effect of the first render (part_005:193, 221): the
\* storeTorrentMeta and updateTorrents its listeners call are those of the
\* first render.
FirstRenderSupported == FALSE

\* part_005:257-268  the descriptor the hook builds from a transfer: the two
\* flags are not copied from the argument
hookMeta(h, now) ==
  [infoHash |-> h, createdAt |-> now, isSeeded |-> "undefined",
   isVerified |-> "undefined"]

\* part_005:254-275  the hook's storeTorrentMeta in a closure whose
\* opfsSupported is `sup`; a failure of the driver is logged
hookStoreTorrentMeta(sup, h, now, fails) ==
  IF ~sup THEN metaFiles ELSE storeTorrentMeta(hookMeta(h, now), fails)

\* a transfer of the engine with the fields the hook adds: how it was
\* registered (origin), whether its listeners are attached (listening; a
\* rehydrated transfer gets them at registration), the descriptor its
\* listeners closed over (meta) and, as history, whether its verify event
\* fired, whether a verify listener is suspended in its await (verifyWait)
\* and whether it ended with an error (failed)
NoTorrent == [added |-> FALSE, origin |-> "", listening |-> FALSE, store |-> "",
              skipVerify |-> FALSE, override |-> Undef, meta |-> NoDescriptor,
              verifyFired |-> FALSE, verifyWait |-> FALSE, progress |-> 0,
              failed |-> FALSE]

NoError == [msg |-> "", about |-> NoHash]

TopDirs == {"torrents", "torrent-meta"}

\* the clearAllStorage in progress: the top-level entries still to remove;
\* and as history the number of clears started, whether storage failed
\* under the current one (ioFail), whether the last one completed without
\* (clean) and whether one was ever requested (tried)
NoClear == [pc |-> "idle", todo |-> {}, n |-> 0, ioFail |-> FALSE,
            clean |-> FALSE, tried |-> FALSE]

\* part_005:94  meta.isSeeded && !meta.isVerified, without the second test
NeedsVerifySeededOnly(meta) == Truthy(meta.isSeeded)

\* part_005:94  meta.isSeeded && !meta.isVerified
NeedsVerify(meta) == Truthy(meta.isSeeded) /\ ~Truthy(meta.isVerified)

\* part_005:90  skipVerify: !meta.isSeeded
SkipVerify(meta) == ~Truthy(meta.isSeeded)

\* part_005:20 and 52  the progress convertTorrent publishes
convertProgress(t) == IF t.override # Undef THEN t.override ELSE t.progress

\* part_005:285-289 with the store option set whatever opfsSupported is
StoreOptionAlways(sup) == "createOPFSStore"

\* part_005:285-289  torrentOptions.store = createOPFSStore if opfsSupported
StoreOption(sup) == IF sup THEN "createOPFSStore" ELSE ""

\* the client exists: setClient was called (part_005:180)
HasClient == rpc \in {"idle", "listed", "loaded"}

\* the initialization is over: isLoading is false (part_005:200-201) and the
\* user can act
ClientReady == rpc = "loaded"

\* initializeClient going on to the client and the rehydration when
\* opfsManager.initialize() has thrown (part_005:156 without the catch of
\* 203-208)
StartClientIgnoresFailure(fails, made) ==
  /\ rpc = "start"
  /\ IF ~supported
     THEN rpc' = "loaded" /\ UNCHANGED <<error, rootDirs>>
     ELSE IF fails
     THEN /\ rpc' = "idle"
          /\ made \subseteq {"torrents"}
          /\ rootDirs' = rootDirs \cup made
          /\ error' = [msg |-> "Initialization failed", about |-> NoHash]
     ELSE /\ rpc' = "idle"
          /\ rootDirs' = TopDirs
          /\ UNCHANGED error
  /\ justLoaded' = FALSE
  /\ UNCHANGED <<metaFiles, metas, listFailed, torrents, published, supported, seeding, inflight, metaCall, clear>>
  /\ UNCHANGED storeVars

\* part_005:147-189  initializeClient up to the ready client, with
\* opfsManager.initialize (opfs.ts:33-46) when the host is supported: a
\* failure there ends the initialization (part_005:203-208) and may leave
\* torrents/ created.  An unsupported host skips it and the rehydration
\* (part_005:192).
StartClient(fails, made) ==
  /\ rpc = "start"
  /\ IF ~supported
     THEN rpc' = "loaded" /\ UNCHANGED <<error, rootDirs>>
     ELSE IF fails
     THEN /\ rpc' = "dead"
          /\ made \subseteq {"torrents"}
          /\ rootDirs' = rootDirs \cup made
          /\ error' = [msg |-> "Initialization failed", about |-> NoHash]
     ELSE /\ rpc' = "idle"
          /\ rootDirs' = TopDirs
          /\ UNCHANGED error
  /\ justLoaded' = FALSE
  /\ UNCHANGED <<metaFiles, metas, listFailed, torrents, published, supported, seeding, inflight, metaCall, clear>>
  /\ UNCHANGED storeVars

\* part_005:78  await opfsManager.getAllTorrentMetas(); a failure of the
\* enumeration is caught there (opfs.ts:106-108) and what was read is kept.
LoadList(listed, fails) ==
  /\ rpc = "idle"
  /\ listed \subseteq Hashes
  /\ ~fails => listed = Hashes
  /\ \E sq \in getAllTorrentMetas(listed) : metas' = sq
  /\ listFailed' = fails
  /\ rpc' = "listed"
  /\ justLoaded' = FALSE
  /\ UNCHANGED <<metaFiles, torrents, published>>
  /\ UNCHANGED hostVars
  /\ UNCHANGED storeVars

\* part_005:82-137  the synchronous map over the descriptors: client.add with
\* the adapter factory and skipVerify, the override of 0, the listeners; then
\* setTorrents of the converted transfers.
LoadAdd ==
  /\ rpc = "listed"
  /\ LET reg(m) == [NoTorrent EXCEPT !.added = TRUE, !.origin = "rehydrated",
                                     !.listening = TRUE,
                                     !.store = "createOPFSStore",
                                     !.skipVerify = SkipVerify(m),
                                     !.override = IF NeedsVerify(m) THEN 0 ELSE Undef,
                                     !.meta = m]
         new == [h \in Hashes |->
                   IF \E i \in 1..Len(metas) : metas[i].infoHash = h
                   THEN reg(CHOOSE m \in {metas[i] : i \in 1..Len(metas)} : m.infoHash = h)
                   ELSE torrents[h]]
     IN  /\ torrents' = new
         /\ published' = [h \in Hashes |->
                            IF \E i \in 1..Len(metas) : metas[i].infoHash = h
                            THEN convertProgress(new[h]) ELSE Undef]
  /\ rpc' = "loaded"
  /\ justLoaded' = TRUE
  /\ UNCHANGED <<metaFiles, metas, listFailed>>
  /\ UNCHANGED hostVars
  /\ UNCHANGED storeVars

\* part_005:278-293, 374  addTorrent with a FileList: client.seed with the
\* store option; the error is reset
SeedStart(h) ==
  /\ ClientReady
  /\ ~torrents[h].added
  /\ torrents' = [torrents EXCEPT ![h] =
                    [NoTorrent EXCEPT !.added = TRUE, !.origin = "seeded",
                                      !.store = StoreOption(supported)]]
  /\ error' = NoError
  /\ justLoaded' = FALSE
  /\ UNCHANGED <<metaFiles, rpc, metas, listFailed, published, supported, seeding, inflight, metaCall, rootDirs, clear>>
  /\ UNCHANGED storeVars

\* part_005:293-346  the callback of client.seed: the override of 0, then
\* the listeners
SeedCallback(h) ==
  /\ torrents[h].added /\ torrents[h].origin = "seeded" /\ ~torrents[h].listening
  /\ torrents' = [torrents EXCEPT ![h].override = 0, ![h].listening = TRUE]
  /\ justLoaded' = FALSE
  /\ UNCHANGED <<metaFiles, rpc, metas, listFailed, published>>
  /\ UNCHANGED hostVars
  /\ UNCHANGED storeVars

\* part_005:278-289, 348, 374  addTorrent with a magnet link or a .torrent
\* file: client.add with the store option; the error is reset
AddStart(h) ==
  /\ ClientReady
  /\ ~torrents[h].added
  /\ torrents' = [torrents EXCEPT ![h] =
                    [NoTorrent EXCEPT !.added = TRUE, !.origin = "added",
                                      !.store = StoreOption(supported)]]
  /\ error' = NoError
  /\ justLoaded' = FALSE
  /\ UNCHANGED <<metaFiles, rpc, metas, listFailed, published, supported, seeding, inflight, metaCall, rootDirs, clear>>
  /\ UNCHANGED storeVars

\* opfs.ts:514-524  initializeTorrent: createTorrentDirectory creates
\* torrents/{infoHash}/; a failure is logged
initializeTorrent(h, fails) ==
  IF fails \/ "torrents" \notin rootDirs THEN dirExists
  ELSE [dirExists EXCEPT ![h] = TRUE]

\* part_005:348-371  the callback of client.add: on a supported host the
\* directory of the transfer and its descriptor, then the listeners
AddCallback(h, now, dfails, mfails) ==
  /\ torrents[h].added /\ torrents[h].origin = "added" /\ ~torrents[h].listening
  /\ dirExists' = IF supported THEN initializeTorrent(h, dfails) ELSE dirExists
  /\ metaFiles' = hookStoreTorrentMeta(supported, h, now, mfails)
  /\ torrents' = [torrents EXCEPT ![h].listening = TRUE]
  /\ justLoaded' = FALSE
  /\ UNCHANGED <<rpc, metas, listFailed, published>>
  /\ UNCHANGED hostVars
  /\ UNCHANGED <<files, store, nInst, instances, ops, lastNew, lastCb, lastPut, lastDel>>

\* part_005:100-104  'ready' of a rehydrated transfer:
\* webTorrentOPFSStore.initializeTorrent (opfs.ts:514-524) creates
\* torrents/{infoHash}/; a failure is logged.
TorrentReady(h, fails) ==
  /\ torrents[h].added /\ torrents[h].origin = "rehydrated"
  /\ dirExists' = initializeTorrent(h, fails)
  /\ justLoaded' = FALSE
  /\ UNCHANGED <<metaFiles, rpc, metas, listFailed, torrents, published>>
  /\ UNCHANGED hostVars
  /\ UNCHANGED <<files, store, nInst, instances, ops, lastNew, lastCb, lastPut, lastDel>>

\* 'ready' of a transfer of this session.  part_005:297-309 for a seeded
\* one: on a supported host initializeTorrent and the descriptor.
\* part_005:355-359 for an added one: the descriptor.
SessionReady(h, now, dfails, mfails) ==
  /\ torrents[h].added /\ torrents[h].listening
  /\ torrents[h].origin \in {"seeded", "added"}
  /\ dirExists' = IF torrents[h].origin = "seeded" /\ supported
                  THEN initializeTorrent(h, dfails) ELSE dirExists
  /\ metaFiles' = hookStoreTorrentMeta(supported, h, now, mfails)
  /\ justLoaded' = FALSE
  /\ UNCHANGED <<rpc, metas, listFailed, torrents, published>>
  /\ UNCHANGED hostVars
  /\ UNCHANGED <<files, store, nInst, instances, ops, lastNew, lastCb, lastPut, lastDel>>

\* part_005:312-322  'metadata' of a seeded transfer: the descriptor again
TorrentMetadata(h, now, mfails) ==
  /\ torrents[h].added /\ torrents[h].listening /\ torrents[h].origin = "seeded"
  /\ metaFiles' = hookStoreTorrentMeta(supported, h, now, mfails)
  /\ justLoaded' = FALSE
  /\ UNCHANGED <<rpc, metas, listFailed, torrents, published>>
  /\ UNCHANGED hostVars
  /\ UNCHANGED storeVars

\* 'verifying' with the override of 0 whatever the origin of the transfer
TorrentVerifyingAny(h) ==
  /\ torrents[h].added /\ torrents[h].listening
  /\ torrents' = [torrents EXCEPT ![h].override = 0]
  /\ justLoaded' = FALSE
  /\ UNCHANGED <<metaFiles, rpc, metas, listFailed, published>>
  /\ UNCHANGED hostVars
  /\ UNCHANGED storeVars

\* 'verifying'.  part_005:106-112 for a rehydrated transfer: the override is
\* 0 if meta.isSeeded; the updateTorrents() there is the one of the first
\* render (the callback is memoized with no dependencies, part_005:142),
\* whose client is null: it returns at part_005:233.  part_005:325-329 for a
\* seeded transfer: the override is 0.  part_005:364 for an added one.
TorrentVerifying(h) ==
  /\ torrents[h].added /\ torrents[h].listening
  /\ torrents' = [torrents EXCEPT ![h].override =
                    IF \/ torrents[h].origin = "seeded"
                       \/ /\ torrents[h].origin = "rehydrated"
                          /\ Truthy(torrents[h].meta.isSeeded)
                    THEN 0 ELSE @]
  /\ justLoaded' = FALSE
  /\ UNCHANGED <<metaFiles, rpc, metas, listFailed, published>>
  /\ UNCHANGED hostVars
  /\ UNCHANGED storeVars

\* 'verify'.  part_005:114-122 for a rehydrated transfer: up to the await of
\* storeTorrentMeta.  part_005:331-335 for a seeded one: the override is 1.
\* part_005:361 for an added one.
TorrentVerify(h) ==
  /\ torrents[h].added /\ torrents[h].listening
  /\ torrents' = [torrents EXCEPT
       ![h].verifyFired = TRUE,
       ![h].verifyWait = (/\ torrents[h].origin = "rehydrated"
                          /\ Truthy(torrents[h].meta.isSeeded)) \/ @,
       ![h].override = IF torrents[h].origin = "seeded" THEN 1 ELSE @]
  /\ justLoaded' = FALSE
  /\ UNCHANGED <<metaFiles, rpc, metas, listFailed, published>>
  /\ UNCHANGED hostVars
  /\ UNCHANGED storeVars

\* part_005:118-125  'verify' from the call of storeTorrentMeta on: the
\* descriptor write of the first-render closure, then the override becomes 1
VerifyDone(h, now, fails) ==
  /\ torrents[h].added
  /\ torrents[h].verifyWait
  /\ metaFiles' = hookStoreTorrentMeta(FirstRenderSupported, h, now, fails)
  /\ torrents' = [torrents EXCEPT ![h].override = 1, ![h].verifyWait = FALSE]
  /\ justLoaded' = FALSE
  /\ UNCHANGED <<rpc, metas, listFailed, published>>
  /\ UNCHANGED hostVars
  /\ UNCHANGED storeVars

\* the engine's own progress of a transfer changes
TorrentProgress(h, p) ==
  /\ torrents[h].added
  /\ torrents[h].progress # p
  /\ torrents' = [torrents EXCEPT ![h].progress = p]
  /\ justLoaded' = FALSE
  /\ UNCHANGED <<metaFiles, rpc, metas, listFailed, published>>
  /\ UNCHANGED hostVars
  /\ UNCHANGED storeVars

\* an error event with every transfer of the client dropped
TorrentErrorAll(h) ==
  /\ torrents[h].added /\ torrents[h].listening
  /\ torrents' = [g \in Hashes |->
                    IF g = h THEN [NoTorrent EXCEPT !.failed = TRUE] ELSE NoTorrent]
  /\ error' = [msg |-> "Torrent error", about |-> h]
  /\ justLoaded' = FALSE
  /\ UNCHANGED <<metaFiles, rpc, metas, listFailed, published, supported, seeding, inflight, metaCall, rootDirs, clear>>
  /\ UNCHANGED storeVars

\* part_005:128-131, 340-343, 366-369  'error': the engine rejects the
\* transfer (it destroys it and drops it from client.torrents) and the
\* listener reports the message of that transfer
TorrentError(h) ==
  /\ torrents[h].added /\ torrents[h].listening
  /\ torrents' = [torrents EXCEPT ![h] = [NoTorrent EXCEPT !.failed = TRUE]]
  /\ error' = [msg |-> "Torrent error", about |-> h]
  /\ justLoaded' = FALSE
  /\ UNCHANGED <<metaFiles, rpc, metas, listFailed, published, supported, seeding, inflight, metaCall, rootDirs, clear>>
  /\ UNCHANGED storeVars

\* part_005:232-251  updateTorrents with a client: the transfers of the
\* client are converted and published (the interval of one second, and the
\* calls in addTorrent and its listeners)
Tick ==
  /\ HasClient
  /\ published' = [h \in Hashes |->
                     IF torrents[h].added THEN convertProgress(torrents[h]) ELSE Undef]
  /\ published' # published
  /\ justLoaded' = FALSE
  /\ UNCHANGED <<metaFiles, rpc, metas, listFailed, torrents>>
  /\ UNCHANGED hostVars
  /\ UNCHANGED storeVars

\* ------------------------------------------------- seeding with increments
\* The addTorrent of part_004 seeds files and moves the override of the
\* seeded transfer by 1/pieces at each verify event.  A progress is kept in
\* Scale-ths; the quotient 1/pieces is rounded to the nearest of them, as
\* the division rounds to the nearest number of its format.

\* the seeded transfer: its identity, the number of its pieces, the
\* engine's progress, the override (Undef: not set) and the progress that
\* updateTorrents last published
NoSeed == [state |-> "none", hash |-> NoHash, pieces |-> 0, progress |-> 0,
           override |-> Undef, shown |-> Undef, last |-> "none"]

\* 1 / torrent.pieces.length
PieceShare(n) == (2 * Scale + n) \div (2 * n)

\* part_004:18  convertTorrent: the override when it is set, else the
\* engine's progress
seedProgress(t) == IF t.override # Undef THEN t.override ELSE t.progress

\* part_004:194  the right-hand side with the cap left out
NextOverrideUncapped(o, n) == o + PieceShare(n)

\* part_004:194  Math.min(_progressOverride + 1 / pieces.length, 1)
NextOverride(o, n) == Min(o + PieceShare(n), Scale)

SeedFrame ==
  /\ justLoaded' = FALSE
  /\ UNCHANGED <<metaFiles, rpc, metas, listFailed, torrents, published>>
  /\ UNCHANGED <<supported, inflight, error, rootDirs, clear, metaCall>>
  /\ UNCHANGED <<files, store, nInst, instances, ops, lastNew, lastCb, lastPut, lastDel>>

\* part_004:165-173 and 214  the callback of client.seed: a transfer that
\* is complete at once gets the override 0; the listeners; updateTorrents
SeedStarted(h, n, p) ==
  /\ seeding.state = "none"
  /\ LET t == [NoSeed EXCEPT !.state = "seeding", !.hash = h, !.pieces = n,
                             !.progress = p, !.last = "seed",
                             !.override = IF p = Scale THEN 0 ELSE Undef]
     IN  seeding' = [t EXCEPT !.shown = seedProgress(t)]
  /\ UNCHANGED dirExists
  /\ SeedFrame

\* part_004:175-187  'ready': on a supported host the directory of the
\* transfer is created; updateTorrents
SeedReady(dfails) ==
  /\ seeding.state = "seeding"
  /\ dirExists' = IF supported THEN initializeTorrent(seeding.hash, dfails)
                  ELSE dirExists
  /\ seeding' = [seeding EXCEPT !.shown = seedProgress(seeding), !.last = "ready"]
  /\ SeedFrame

\* part_004:190-197  'verify': an override below 1 moves up by the share
\* of one piece, not beyond 1; updateTorrents
SeedVerify ==
  /\ seeding.state = "seeding"
  /\ LET t == IF seeding.override # Undef /\ seeding.override < Scale
              THEN [seeding EXCEPT !.override = NextOverride(@, seeding.pieces)]
              ELSE seeding
     IN  seeding' = [t EXCEPT !.shown = seedProgress(t), !.last = "verify"]
  /\ UNCHANGED dirExists
  /\ SeedFrame

\* part_004:199-202  'download': the engine's progress has moved;
\* updateTorrents
SeedDownload(p) ==
  /\ seeding.state = "seeding"
  /\ p >= seeding.progress
  /\ LET t == [seeding EXCEPT !.progress = p]
     IN  seeding' = [t EXCEPT !.shown = seedProgress(t), !.last = "download"]
  /\ UNCHANGED dirExists
  /\ SeedFrame

\* part_004:204-207  'upload': updateTorrents
SeedUpload ==
  /\ seeding.state = "seeding"
  /\ seeding' = [seeding EXCEPT !.shown = seedProgress(seeding), !.last = "upload"]
  /\ UNCHANGED dirExists
  /\ SeedFrame

\* ----------------------------------------------------------- removeTorrent
\* The callback of client.add and the callback of client.remove are async
\* functions; each is cut at its awaits.  Per transfer: the await in which
\* the add callback is suspended (adding), the await in which the remove
\* callback is suspended (removing) and, as history, whether the last
\* removeTorrent returned with the descriptor and the directory gone
\* (removed).
NoFlight == [adding |-> "none", removing |-> "none", removed |-> FALSE]

FlightFrame ==
  /\ justLoaded' = FALSE
  /\ UNCHANGED <<rpc, metas, listFailed>>
  /\ UNCHANGED <<supported, seeding, error, rootDirs, clear, metaCall>>
  /\ UNCHANGED <<store, nInst, instances, ops, lastNew, lastCb, lastDel>>

\* part_005:348-349  the callback of client.add on a supported host calls
\* initializeTorrent and is suspended in its await
AddCallbackStart(h) ==
  /\ supported
  /\ torrents[h].added /\ torrents[h].origin = "added" /\ ~torrents[h].listening
  /\ inflight[h].adding = "none"
  /\ inflight' = [inflight EXCEPT ![h].adding = "initializeTorrent"]
  /\ UNCHANGED <<dirExists, files, lastPut, metaFiles, torrents, published>>
  /\ FlightFrame

\* part_005:350-352 with opfs.ts:514-524  createTorrentDirectory returns or
\* fails; the callback goes on to storeTorrentMeta and is suspended in the
\* await of the driver (part_005:271)
AddCallbackDir(h, dfails) ==
  /\ inflight[h].adding = "initializeTorrent"
  /\ dirExists' = initializeTorrent(h, dfails)
  /\ inflight' = [inflight EXCEPT ![h].adding = "storeTorrentMeta"]
  /\ UNCHANGED <<files, lastPut, metaFiles, torrents, published>>
  /\ FlightFrame

\* part_005:271-274 and 355-371  the driver's storeTorrentMeta returns or
\* fails (logged); the listeners are attached to the transfer
AddCallbackStore(h, now, mfails) ==
  /\ inflight[h].adding = "storeTorrentMeta"
  /\ metaFiles' = hookStoreTorrentMeta(supported, h, now, mfails)
  /\ inflight' = [inflight EXCEPT ![h].adding = "none"]
  /\ torrents' = IF torrents[h].added /\ torrents[h].origin = "added"
                 THEN [torrents EXCEPT ![h].listening = TRUE] ELSE torrents
  /\ UNCHANGED <<dirExists, files, lastPut, published>>
  /\ FlightFrame

\* part_005:404-417  removeTorrent: client.remove drops the transfer and
\* calls back without error; on a supported host the callback calls
\* deleteTorrent and is suspended in its await
RemoveTorrent(h) ==
  /\ ClientReady /\ supported
  /\ torrents[h].added
  /\ inflight[h].removing = "none"
  /\ torrents' = [torrents EXCEPT ![h] = NoTorrent]
  /\ inflight' = [inflight EXCEPT ![h].removing = "deleteTorrent",
                                  ![h].removed = FALSE]
  /\ UNCHANGED <<dirExists, files, lastPut, metaFiles, published>>
  /\ FlightFrame

\* opfs.ts:165-174  removeEntry(infoHash, {recursive: true}) on torrents/
RemovedDirectory(h, fails) ==
  IF fails \/ "torrents" \notin rootDirs THEN dirExists
  ELSE [dirExists EXCEPT ![h] = FALSE]

\* the entries of torrents/{h}/ go with the directory
RemovedEntries(h, fails) ==
  IF fails \/ "torrents" \notin rootDirs \/ ~dirExists[h] THEN files
  ELSE [files EXCEPT ![h] = [n \in Names |-> NoFile]]

\* the history of the puts of the entries that went with the directory
RemovedPuts(h, fails) ==
  IF fails \/ "torrents" \notin rootDirs \/ ~dirExists[h] THEN lastPut
  ELSE [lastPut EXCEPT ![h] = [n \in Names |-> NoPut]]

\* part_005:417 with opfs.ts:526-536  deleteTorrent: deleteTorrentDirectory
\* returns (its failure is logged); the callback calls deleteTorrentMeta
RemoveStore(h, fails) ==
  /\ inflight[h].removing = "deleteTorrent"
  /\ dirExists' = RemovedDirectory(h, fails)
  /\ files' = RemovedEntries(h, fails)
  /\ lastPut' = RemovedPuts(h, fails)
  /\ inflight' = [inflight EXCEPT ![h].removing = "deleteTorrentMeta"]
  /\ UNCHANGED <<metaFiles, torrents, published>>
  /\ FlightFrame

\* part_005:418 with opfs.ts:113-122  deleteTorrentMeta returns (its
\* failure is logged); the callback calls deleteTorrentDirectory
RemoveMeta(h, fails) ==
  /\ inflight[h].removing = "deleteTorrentMeta"
  /\ metaFiles' = deleteTorrentMeta(h, fails)
  /\ inflight' = [inflight EXCEPT ![h].removing = "deleteTorrentDirectory"]
  /\ UNCHANGED <<dirExists, files, lastPut, torrents, published>>
  /\ FlightFrame

\* part_005:419-425  deleteTorrentDirectory returns (its failure is
\* logged); updateTorrents publishes the transfers of the client
RemoveDone(h, fails) ==
  /\ inflight[h].removing = "deleteTorrentDirectory"
  /\ dirExists' = RemovedDirectory(h, fails)
  /\ files' = RemovedEntries(h, fails)
  /\ lastPut' = RemovedPuts(h, fails)
  /\ inflight' = [inflight EXCEPT
                    ![h].removing = "none",
                    ![h].removed = (~dirExists'[h] /\ metaFiles[h] = NoMeta)]
  /\ published' = [g \in Hashes |->
                     IF torrents[g].added THEN convertProgress(torrents[g]) ELSE Undef]
  /\ UNCHANGED <<metaFiles, torrents>>
  /\ FlightFrame

\* ------------------------------------------------------------ clear everything
\* opfs.ts:202-244  getOPFSContents: the paths of the recursive listing
getOPFSContents ==
  {<<d>> : d \in rootDirs}
    \cup {<<"torrent-meta", h>> : h \in {g \in Hashes : metaFiles[g].state # "absent"}}
    \cup {<<"torrents", h>> : h \in {g \in Hashes : dirExists[g]}}
    \cup {<<"torrents", h, n>> : h \in {g \in Hashes : dirExists[g]},
                                 n \in {m \in Names : \E g \in Hashes :
                                                        dirExists[g] /\ files[g][m].exists}}

\* part_005:431-444  clearAllStorage: nothing on an unsupported host;
\* otherwise client.remove of every transfer and the start of clearAllOPFS
\* (opfs.ts:246-251), which lists the root.
ClearStart ==
  /\ ClientReady
  /\ clear.pc = "idle"
  /\ clear.n < MaxClears
  /\ IF ~supported
     THEN /\ clear' = [clear EXCEPT !.tried = TRUE]
          /\ UNCHANGED torrents
     ELSE /\ clear' = [clear EXCEPT !.pc = "remove", !.todo = rootDirs, !.n = @ + 1,
                                    !.ioFail = FALSE, !.clean = FALSE, !.tried = TRUE]
          /\ torrents' = [h \in Hashes |-> NoTorrent]
  /\ justLoaded' = FALSE
  /\ UNCHANGED <<metaFiles, rpc, metas, listFailed, published, supported, seeding, inflight, metaCall, error, rootDirs>>
  /\ UNCHANGED storeVars

\* opfs.ts:251-258  removeEntry(name, {recursive: true}) of one top-level
\* entry; a failure is logged and the loop goes on
ClearRemove(d, fails) ==
  /\ clear.pc = "remove"
  /\ d \in clear.todo
  /\ IF fails
     THEN /\ clear' = [clear EXCEPT !.todo = @ \ {d}, !.ioFail = TRUE]
          /\ UNCHANGED <<rootDirs, metaFiles, dirExists, files, lastPut>>
     ELSE /\ clear' = [clear EXCEPT !.todo = @ \ {d}]
          /\ rootDirs' = rootDirs \ {d}
          /\ metaFiles' = IF d = "torrent-meta" THEN [h \in Hashes |-> NoMeta]
                          ELSE metaFiles
          /\ dirExists' = IF d = "torrents" THEN [h \in Hashes |-> FALSE]
                          ELSE dirExists
          /\ files' = IF d = "torrents" THEN [h \in Hashes |-> [n \in Names |-> NoFile]]
                      ELSE files
          /\ lastPut' = IF d = "torrents" THEN [h \in Hashes |-> [n \in Names |-> NoPut]]
                        ELSE lastPut
  /\ justLoaded' = FALSE
  /\ UNCHANGED <<rpc, metas, listFailed, torrents, published, supported, seeding, inflight, metaCall, error>>
  /\ UNCHANGED <<store, nInst, instances, ops>>
  /\ QuietNew /\ QuietCb /\ QuietDel

\* opfs.ts:260-268 and part_005:451-454  the two directories are created
\* again; when that (or the listing of the root) fails, clearAllOPFS throws
\* and clearAllStorage reports it
ClearRecreate(fails) ==
  /\ clear.pc = "remove"
  /\ fails \/ clear.todo = {}
  /\ IF fails
     THEN /\ clear' = [clear EXCEPT !.pc = "idle", !.todo = {}, !.ioFail = TRUE]
          /\ error' = [msg |-> "Failed to clear storage", about |-> NoHash]
          /\ UNCHANGED rootDirs
     ELSE /\ clear' = [clear EXCEPT !.pc = "update"]
          /\ rootDirs' = TopDirs
          /\ UNCHANGED error
  /\ justLoaded' = FALSE
  /\ UNCHANGED <<metaFiles, rpc, metas, listFailed, torrents, published, supported, seeding, inflight, metaCall>>
  /\ UNCHANGED storeVars

\* part_005:446-450  setTorrents([]) and the storage estimate
ClearDone ==
  /\ clear.pc = "update"
  /\ clear' = [clear EXCEPT !.pc = "idle", !.clean = ~clear.ioFail]
  /\ published' = [h \in Hashes |-> Undef]
  /\ justLoaded' = FALSE
  /\ UNCHANGED <<metaFiles, rpc, metas, listFailed, torrents, supported, seeding, inflight, metaCall, error, rootDirs>>
  /\ UNCHANGED storeVars

\* ------------------------------------------------------------ initial states
NoSessionVars ==
  /\ metas = <<>>
  /\ listFailed = FALSE
  /\ torrents = [h \in Hashes |-> NoTorrent]
  /\ published = [h \in Hashes |-> Undef]
  /\ justLoaded = FALSE
  /\ seeding = NoSeed
  /\ inflight = [h \in Hashes |-> NoFlight]
  /\ error = NoError
  /\ clear = NoClear
  /\ metaCall = NoMetaCall

\* the engine uses the adapters of a running session: the driver is
\* initialized (part_005:156), no descriptor is stored
InitNoSession ==
  /\ NoSessionVars
  /\ metaFiles = [h \in Hashes |-> NoMeta]
  /\ rpc = "off"
  /\ supported = TRUE
  /\ rootDirs = TopDirs

\* the driver is initialized and the client is ready (part_005:156-193);
\* torrent-meta/ holds what earlier sessions left
InitSession ==
  /\ NoSessionVars
  /\ metaFiles \in {m \in [Hashes -> {NoMeta, BadMeta} \cup Metas] :
                    \A h \in Hashes : m[h] \in {NoMeta, BadMeta} \cup MetasOf(h)}
  /\ rpc = "idle"
  /\ supported = TRUE
  /\ rootDirs = TopDirs

\* the application starts on a host with or without the file system; with
\* it, torrent-meta/ holds what earlier sessions left (descriptors of one
\* creation time), or nothing exists yet
InitStart ==
  /\ NoSessionVars
  /\ rpc = "start"
  /\ supported \in BOOLEAN
  /\ metaFiles \in {m \in [Hashes -> {NoMeta, BadMeta} \cup Metas] :
                    \A h \in Hashes :
                      /\ m[h] \in {NoMeta, BadMeta} \cup MetasOf(h)
                      /\ m[h].state = "ok" => Parse(m[h].text).createdAt = 1
                      /\ ~supported => m[h] = NoMeta}
  /\ rootDirs \in {{}, TopDirs}
  /\ (\E h \in Hashes : metaFiles[h] # NoMeta) => rootDirs = TopDirs
  /\ ~supported => rootDirs = {}

\* ------------------------------------------------------------ specifications
Init == InitStoreVars /\ InitNoSession

\* Two adapters of one transfer, two calls in flight, whole-chunk reads of
\* chunk 0.
WholeChunk == {Undef}
FirstIndex == {0}
OneTransfer == {"h1"}

Next ==
  \/ \E h \in OneTransfer \cup {NoHash}, f \in FileIdx : Construct(h, f)
  \/ \E x \in 1..MaxInst : InitResolve(x)
  \/ \E x \in 1..MaxInst : InitReject(x)
  \/ \E x \in 1..MaxInst : Put(x)
  \/ \E op \in InFlight, i \in FirstIndex, fails \in BOOLEAN : PutOpen(op, i, fails)
  \/ \E op \in InFlight, b \in Bufs, fails \in BOOLEAN : PutCommit(op, b, fails)
  \/ \E x \in 1..MaxInst : Get(x)
  \/ \E op \in InFlight, i \in FirstIndex, off \in WholeChunk, len \in WholeChunk,
        fails \in BOOLEAN : GetRead(op, i, off, len, fails)
  \/ \E x \in 1..MaxInst : Destroy(x)
  \/ \E op \in InFlight, fails \in BOOLEAN : DestroyList(op, fails)
  \/ \E op \in InFlight, n \in Names, fails \in BOOLEAN : DestroyDelete(op, n, fails)
  \/ \E op \in InFlight : DestroyDone(op)

Spec == Init /\ [][Next]_vars

\* One adapter object, every chunk index and every range.
NextOne ==
  \/ (nInst = 0 \/ instances[<<"h1", 0>>] # 0) /\ Construct("h1", 0)
  \/ \E x \in 1..MaxInst : InitResolve(x)
  \/ \E x \in 1..MaxInst : InitReject(x)
  \/ \E x \in 1..MaxInst : Put(x)
  \/ \E op \in InFlight, i \in Indices, fails \in BOOLEAN : PutOpen(op, i, fails)
  \/ \E op \in InFlight, b \in Bufs, fails \in BOOLEAN : PutCommit(op, b, fails)
  \/ \E x \in 1..MaxInst : Get(x)
  \/ \E op \in InFlight, i \in Indices, off \in OptVals, len \in OptVals,
        fails \in BOOLEAN : GetRead(op, i, off, len, fails)
  \/ \E x \in 1..MaxInst : Destroy(x)
  \/ \E op \in InFlight, fails \in BOOLEAN : DestroyList(op, fails)
  \/ \E op \in InFlight, n \in Names, fails \in BOOLEAN : DestroyDelete(op, n, fails)
  \/ \E op \in InFlight : DestroyDone(op)

SpecOne == Init /\ [][NextOne]_vars

\* The rehydration of one session and the events of the engine after it.
InitRehydrate == InitStoreVars /\ InitSession

NextRehydrate ==
  \/ \E listed \in SUBSET Hashes, fails \in BOOLEAN : LoadList(listed, fails)
  \/ LoadAdd
  \/ \E h \in Hashes, fails \in BOOLEAN : TorrentReady(h, fails)
  \/ \E h \in Hashes : TorrentVerifying(h)
  \/ \E h \in Hashes : TorrentVerify(h)
  \/ \E h \in Hashes, now \in 1..MaxTime, fails \in BOOLEAN : VerifyDone(h, now, fails)
  \/ \E h \in Hashes, p \in {0, 1} : TorrentProgress(h, p)
  \/ \E h \in Hashes : TorrentError(h)
  \/ Tick

SpecRehydrate == InitRehydrate /\ [][NextRehydrate]_vars

\* One session of the hook from the start of the application, with one
\* transfer: the initialization, the rehydration, the transfer seeded or
\* added by the user, the events of the engine and clearAllStorage.
InitHook ==
  /\ InitStoreVars
  /\ InitStart
  /\ \A h \in Hashes \ OneTransfer : metaFiles[h] = NoMeta

NextSession ==
  \/ \E fails \in BOOLEAN, made \in SUBSET {"torrents"} : StartClient(fails, made)
  \/ \E fails \in BOOLEAN : LoadList(IF fails THEN {} ELSE Hashes, fails)
  \/ LoadAdd
  \/ \E h \in OneTransfer : SeedStart(h)
  \/ \E h \in OneTransfer : SeedCallback(h)
  \/ \E h \in OneTransfer : AddStart(h)
  \/ \E h \in OneTransfer, dfails, mfails \in BOOLEAN : AddCallback(h, 1, dfails, mfails)
  \/ \E h \in OneTransfer, fails \in BOOLEAN : TorrentReady(h, fails)
  \/ \E h \in OneTransfer, dfails, mfails \in BOOLEAN : SessionReady(h, 1, dfails, mfails)
  \/ \E h \in OneTransfer, mfails \in BOOLEAN : TorrentMetadata(h, 1, mfails)
  \/ \E h \in OneTransfer : TorrentVerifying(h)
  \/ \E h \in OneTransfer : TorrentVerify(h)
  \/ \E h \in OneTransfer, fails \in BOOLEAN : VerifyDone(h, 1, fails)
  \/ \E h \in OneTransfer, p \in {0, 1} : TorrentProgress(h, p)
  \/ \E h \in OneTransfer : TorrentError(h)
  \/ Tick
  \/ ClearStart
  \/ \E d \in TopDirs, fails \in BOOLEAN : ClearRemove(d, fails)
  \/ \E fails \in BOOLEAN : ClearRecreate(fails)
  \/ ClearDone

SpecSession == InitHook /\ [][NextSession]_vars

\* The descriptor store on its own: stores, reads, enumerations and deletions
\* of the descriptors of two transfers in any order, over any content of
\* torrent-meta/.
InitMeta == InitStoreVars /\ InitSession

NextMeta ==
  \/ \E meta \in Descriptors, fails \in BOOLEAN : MetaStore(meta, fails)
  \/ \E h \in Hashes, fails \in BOOLEAN : MetaGet(h, fails)
  \/ \E enum \in UNION {Orderings(S) : S \in SUBSET Hashes}, fails \in BOOLEAN :
        MetaGetAll(enum, fails)
  \/ \E h \in Hashes, fails \in BOOLEAN : MetaDelete(h, fails)

SpecMeta == InitMeta /\ [][NextMeta]_vars

\* The adapters of one transfer with close(): whole chunks of one byte at
\* one index, failures of the storage under put.
OneByte == {<<1>>}

NextClose ==
  \/ \E f \in FileIdx : Construct("h1", f)
  \/ \E x \in 1..MaxInst : InitResolve(x)
  \/ \E x \in 1..MaxInst : Put(x)
  \/ \E op \in InFlight, i \in FirstIndex, fails \in BOOLEAN : PutOpen(op, i, fails)
  \/ \E op \in InFlight, b \in OneByte : PutCommit(op, b, FALSE)
  \/ \E x \in 1..MaxInst : Get(x)
  \/ \E op \in InFlight, i \in FirstIndex, off \in WholeChunk, len \in WholeChunk :
        GetRead(op, i, off, len, FALSE)
  \/ \E x \in 1..MaxInst : Close(x)
  \/ \E x \in 1..MaxInst : Destroy(x)
  \/ \E op \in InFlight : DestroyList(op, FALSE)
  \/ \E op \in InFlight, n \in Names : DestroyDelete(op, n, FALSE)
  \/ \E op \in InFlight : DestroyDone(op)

SpecClose == Init /\ [][NextClose]_vars

\* The overrides: the rehydration of one stored transfer and its engine
\* events, and a transfer seeded with increments.
Progresses == {0, Scale \div 2, Scale}

InitProgress ==
  /\ InitStoreVars
  /\ InitSession
  /\ \A h \in Hashes \ OneTransfer : metaFiles[h] = NoMeta

NextProgress ==
  \/ \E listed \in SUBSET OneTransfer, fails \in BOOLEAN : LoadList(listed, fails)
  \/ LoadAdd
  \/ \E h \in OneTransfer : TorrentReady(h, FALSE)
  \/ \E h \in OneTransfer : TorrentVerifying(h)
  \/ \E h \in OneTransfer : TorrentVerify(h)
  \/ \E h \in OneTransfer, now \in 1..MaxTime : VerifyDone(h, now, FALSE)
  \/ \E h \in OneTransfer, p \in {0, 1} : TorrentProgress(h, p)
  \/ Tick
  \/ \E h \in Hashes \ OneTransfer, n \in 1..MaxPieces, p \in Progresses :
        SeedStarted(h, n, p)
  \/ \E dfails \in BOOLEAN : SeedReady(dfails)
  \/ SeedVerify
  \/ \E p \in Progresses : SeedDownload(p)
  \/ SeedUpload

SpecProgress == InitProgress /\ [][NextProgress]_vars

\* One adapter whose callbacks may throw: whole chunks of one byte at one
\* index, every storage failure.
NextThrow ==
  \/ (nInst = 0 \/ instances[<<"h1", 0>>] # 0) /\ Construct("h1", 0)
  \/ \E x \in 1..MaxInst : InitResolve(x)
  \/ \E x \in 1..MaxInst : InitReject(x)
  \/ \E x \in 1..MaxInst : Put(x)
  \/ \E op \in InFlight, i \in FirstIndex, fails \in BOOLEAN : PutOpen(op, i, fails)
  \/ \E op \in InFlight, b \in OneByte, fails \in BOOLEAN : PutCommit(op, b, fails)
  \/ \E x \in 1..MaxInst : Get(x)
  \/ \E op \in InFlight, i \in FirstIndex, off \in WholeChunk, len \in WholeChunk,
        fails \in BOOLEAN : GetRead(op, i, off, len, fails)
  \/ \E x \in 1..MaxInst : Destroy(x)
  \/ \E op \in InFlight, fails \in BOOLEAN : DestroyList(op, fails)
  \/ \E op \in InFlight, n \in Names, fails \in BOOLEAN : DestroyDelete(op, n, fails)
  \/ \E op \in InFlight : DestroyDone(op)
  \/ CallbackThrew

SpecThrow == Init /\ [][NextThrow]_vars

\* Transfers added by the user and removed again on a supported host, the
\* callbacks of client.add and client.remove cut at their awaits.
InitRemove ==
  /\ InitStoreVars
  /\ NoSessionVars
  /\ metaFiles = [h \in Hashes |-> NoMeta]
  /\ rpc = "loaded"
  /\ supported = TRUE
  /\ rootDirs = TopDirs

NextRemove ==
  \/ \E h \in Hashes : AddStart(h)
  \/ \E h \in Hashes : AddCallbackStart(h)
  \/ \E h \in Hashes, dfails \in BOOLEAN : AddCallbackDir(h, dfails)
  \/ \E h \in Hashes, now \in 1..MaxTime, mfails \in BOOLEAN :
        AddCallbackStore(h, now, mfails)
  \/ \E h \in Hashes : RemoveTorrent(h)
  \/ \E h \in Hashes, fails \in BOOLEAN : RemoveStore(h, fails)
  \/ \E h \in Hashes, fails \in BOOLEAN : RemoveMeta(h, fails)
  \/ \E h \in Hashes, fails \in BOOLEAN : RemoveDone(h, fails)

SpecRemove == InitRemove /\ [][NextRemove]_vars

\* Transfers seeded or added by the user on a supported host and their
\* lifecycle events, each descriptor write at the time of the clock.
\* Date.now() (part_005:267) is not before the createdAt of a stored
\* descriptor.
Clock ==
  {t \in 1..MaxTime :
     \A h \in Hashes : metaFiles[h].state = "ok" => Parse(metaFiles[h].text).createdAt <= t}

NextPersist ==
  \/ \E h \in Hashes : SeedStart(h)
  \/ \E h \in Hashes : SeedCallback(h)
  \/ \E h \in Hashes : AddStart(h)
  \/ \E h \in Hashes, now \in Clock, dfails, mfails \in BOOLEAN :
        AddCallback(h, now, dfails, mfails)
  \/ \E h \in Hashes, now \in Clock, dfails, mfails \in BOOLEAN :
        SessionReady(h, now, dfails, mfails)
  \/ \E h \in Hashes, now \in Clock, mfails \in BOOLEAN :
        TorrentMetadata(h, now, mfails)

SpecPersist == InitRemove /\ [][NextPersist]_vars

\* The deletions of the driver on their own, over what earlier sessions
\* left: directories of transfers with chunk entries, and descriptors.
InitDelete ==
  /\ dirExists \in [Hashes -> BOOLEAN]
  /\ files \in [Hashes -> [Names -> {NoFile, File(<<1>>)}]]
  /\ \A h \in Hashes, n \in Names : files[h][n].exists => dirExists[h]
  /\ store = [x \in 1..MaxInst |-> NoInst]
  /\ nInst = 0
  /\ instances = [k \in Keys |-> 0]
  /\ ops = EmptyBag
  /\ lastNew = NoNew
  /\ lastCb = NoCb
  /\ lastPut = [h \in Hashes |-> [n \in Names |-> NoPut]]
  /\ lastDel = NoDel
  /\ NoSessionVars
  /\ metaFiles \in [Hashes -> {NoMeta, BadMeta}]
       \cup {m \in [Hashes -> Metas \cup {NoMeta}] :
               \A h \in Hashes : m[h] \in {NoMeta, MetaFile(Stringify(hookMeta(h, 1)))}}
  /\ rpc = "off"
  /\ supported = TRUE
  /\ rootDirs = TopDirs

NextDelete ==
  \/ \E h \in Hashes, n \in Names, fails \in BOOLEAN : DeleteFile(h, n, fails)
  \/ \E h \in Hashes, fails \in BOOLEAN : DeleteTorrentDirectory(h, fails)
  \/ \E h \in Hashes, fails \in BOOLEAN : MetaDelete(h, fails)

SpecDelete == InitDelete /\ [][NextDelete]_vars

\* The adapter of one key under clearAllStorage: the puts and gets of the
\* engine on the adapter and the steps of the clear in any order.  The engine
\* closes the stores of the transfers the clear removes (close() is empty,
\* opfs.ts:456-460).
InitClear ==
  /\ InitStoreVars
  /\ NoSessionVars
  /\ metaFiles \in [Hashes -> {NoMeta, MetaFile(Stringify(hookMeta("h1", 1)))}]
  /\ metaFiles["h2"] = NoMeta
  /\ rpc = "loaded"
  /\ supported = TRUE
  /\ rootDirs = TopDirs

NextClear ==
  \/ Construct("h1", 0)
  \/ \E x \in 1..MaxInst : InitResolve(x)
  \/ \E x \in 1..MaxInst : InitReject(x)
  \/ \E x \in 1..MaxInst : Put(x)
  \/ \E op \in InFlight, i \in FirstIndex, fails \in BOOLEAN : PutOpen(op, i, fails)
  \/ \E op \in InFlight, fails \in BOOLEAN : PutCommit(op, <<1>>, fails)
  \/ \E x \in 1..MaxInst : Get(x)
  \/ \E op \in InFlight, i \in FirstIndex, off \in WholeChunk, len \in WholeChunk,
        fails \in BOOLEAN : GetRead(op, i, off, len, fails)
  \/ ClearStart
  \/ \E d \in TopDirs, fails \in BOOLEAN : ClearRemove(d, fails)
  \/ \E fails \in BOOLEAN : ClearRecreate(fails)
  \/ ClearDone

SpecClear == InitClear /\ [][NextClear]_vars

\* ------------------------------------------------------------------ claims

\* C1: a construction request for a key that is in the registry returns the
\* registered object, also while that object's initialization is in flight;
\* after a construction the registry holds the returned object under the key;
\* every adapter object has had exactly one createTorrentDirectory call.
C1_SameInstanceOneInit ==
  /\ (lastNew.prev # 0 => lastNew.ret = lastNew.prev)
  /\ (lastNew.ret # 0 => instances[<<lastNew.hash, lastNew.fileIndex>>] = lastNew.ret)
  /\ \A x \in Live : store[x].initCalls = 1

\* a second request for a registered key whose initialization is pending
C1_Witness ==
  /\ lastNew.prev # 0
  /\ lastNew.ret = lastNew.prev
  /\ store[lastNew.ret].initPromise = "pending"

\* the range {offset, length} lies inside a chunk of n bytes
InRange(off, len, n) == off # Undef /\ len # Undef /\ off + len <= n

\* C2: a get that reads, without storage failure, an entry whose content b
\* (non-empty) was committed by a put of the same adapter returns exactly b
\* when no range is given and exactly b[offset : offset+length] for a range
\* with offset + length <= |b|, length 0 and offset 0 included.
C2_RoundTrip ==
  (/\ lastCb.kind = "get" /\ lastCb.err = "" /\ ~lastCb.ioFail
   /\ lastCb.writer.inst = lastCb.inst
   /\ Len(lastCb.writer.buf) > 0)
  => /\ (lastCb.off = Undef /\ lastCb.len = Undef
           => lastCb.hasData /\ lastCb.data = lastCb.writer.buf)
     /\ (InRange(lastCb.off, lastCb.len, Len(lastCb.writer.buf))
           => /\ lastCb.hasData
              /\ lastCb.data = SubSeq(lastCb.writer.buf, lastCb.off + 1,
                                      lastCb.off + lastCb.len))

\* C3: a get with a range of length >= 1 that ends beyond the stored chunk
\* (offset + length > n) delivers an error or no data, never a shorter slice.
C3_NoTruncation ==
  (/\ lastCb.kind = "get" /\ lastCb.seen.exists
   /\ lastCb.off # Undef /\ lastCb.len # Undef /\ lastCb.len >= 1
   /\ lastCb.off + lastCb.len > Len(lastCb.seen.data))
  => (lastCb.err # "" \/ ~lastCb.hasData)

\* C4: a get issued before destroy on an adapter that has completed no put of
\* that index delivers no data and no error, whatever the lifecycle state.
C4_AbsentNotError ==
  (/\ lastCb.kind = "get" /\ ~lastCb.late
   /\ lastCb.index \notin store[lastCb.inst].puts)
  => (lastCb.err = "" /\ ~lastCb.hasData)

\* C5: a put or get issued while the initialization is pending is not
\* rejected for the initialization not having finished.
C5_WaitsForInit ==
  (lastCb.kind \in {"put", "get"} /\ lastCb.early)
  => lastCb.err # "Store not initialized"

\* C6: a put or get issued on an adapter after destroy() was called on it
\* fails (its callback gets an error) and no entry is written for it.
C6_FailsAfterDestroy ==
  (lastCb.kind \in {"put", "get"} /\ lastCb.late) => lastCb.err # ""

\* C7: a destroyed adapter is not in the registry, and a get on an adapter
\* constructed for the same key after the destroy() delivers no data for a
\* chunk that the destroyed adapter had put before the destroy().
C7_FreshAfterDestroy ==
  /\ \A x \in Live : store[x].destroyed => instances[KeyOf(x)] # x
  /\ (/\ lastCb.kind = "get"
      /\ lastCb.writer.inst # 0 /\ lastCb.writer.inst < lastCb.inst
      /\ KeyOf(lastCb.writer.inst) = KeyOf(lastCb.inst)
      /\ store[lastCb.writer.inst].destroyed /\ lastCb.writer.pre)
     => ~lastCb.hasData

\* C8: the destroy of the adapter for file f removes only entries of file f:
\* an entry committed through the adapter of another file of the transfer is
\* never removed by it, and the transfer's directory stays.
C8_DestroyOwnChunksOnly ==
  /\ (lastDel.by # 0 /\ lastDel.writer # 0
        => store[lastDel.writer].fileIndex = store[lastDel.by].fileIndex)
  /\ \A x \in Live : store[x].initialized => dirExists[store[x].torrentDir]

\* C9: adapters with different keys never address the same entry: what a get
\* through one key returns was put through that key.
C9_KeyIsolation ==
  (lastCb.kind = "get" /\ lastCb.hasData /\ lastCb.writer.inst # 0)
  => KeyOf(lastCb.writer.inst) = KeyOf(lastCb.inst)

\* C10: the registration adds every descriptor that getAllTorrentMetas read
\* to the engine with the adapter factory as store; right after it a transfer
\* has the override 0 exactly when its descriptor is locally originated and
\* not verified, and no override otherwise; and as long as the verify event
\* of such a transfer has not fired its override is still 0.
C10_OverrideUntilVerify ==
  /\ justLoaded =>
       /\ ~listFailed => {metas[i].infoHash : i \in 1..Len(metas)} = ValidMetas
       /\ \A i \in 1..Len(metas) :
            LET h == metas[i].infoHash
            IN  /\ torrents[h].added
                /\ torrents[h].store = "createOPFSStore"
                /\ torrents[h].override =
                     (IF /\ Truthy(Descriptor(h).isSeeded)
                         /\ ~Truthy(Descriptor(h).isVerified)
                      THEN 0 ELSE Undef)
  /\ \A h \in Hashes :
       (/\ torrents[h].added
        /\ Truthy(torrents[h].meta.isSeeded)
        /\ ~Truthy(torrents[h].meta.isVerified)
        /\ ~torrents[h].verifyFired)
       => torrents[h].override = 0

\* both kinds of descriptor were registered, and the verify event of the
\* unverified local one has fired and set its override to 1
C10_Witness ==
  /\ rpc = "loaded" /\ ~listFailed
  /\ \E h, g \in Hashes :
       /\ torrents[h].added /\ torrents[g].added
       /\ Truthy(torrents[h].meta.isSeeded)
       /\ ~Truthy(torrents[h].meta.isVerified)
       /\ torrents[h].verifyFired /\ torrents[h].override = 1
       /\ ~Truthy(torrents[g].meta.isSeeded)
       /\ Truthy(torrents[g].meta.isVerified)
       /\ torrents[g].override = Undef

\* C11: every rehydrated transfer is registered with the verification pass
\* skipped, unless its descriptor is locally originated and not verified.
C11_SkipUnlessUnverifiedLocal ==
  \A h \in Hashes :
    torrents[h].added =>
      (torrents[h].skipVerify =
         ~(Truthy(torrents[h].meta.isSeeded) /\ ~Truthy(torrents[h].meta.isVerified)))

\* C12: once the verify listener of a rehydrated, locally originated transfer
\* has run to its end, the stored descriptor of the transfer has
\* isVerified = true and isSeeded = true.
C12_VerifiedPersisted ==
  \A h \in Hashes :
    (/\ torrents[h].added
     /\ Truthy(torrents[h].meta.isSeeded)
     /\ torrents[h].verifyFired /\ ~torrents[h].verifyWait)
    => /\ metaFiles[h].state = "ok"
       /\ Truthy(Descriptor(h).isVerified)
       /\ Truthy(Descriptor(h).isSeeded)

\* C13: a transfer that carries a progress override is locally originated
\* (seeded by the user in this session, or rehydrated from a descriptor whose
\* isSeeded is true); a downloaded transfer has no override, and whenever
\* its published progress changes, the new value is the engine's own
\* progress.
LocallyOriginated(t) ==
  \/ t.origin = "seeded"
  \/ t.origin = "rehydrated" /\ Truthy(t.meta.isSeeded)

C13_OverrideOnlyLocal ==
  [][\A h \in Hashes :
       /\ torrents'[h].override # Undef => LocallyOriginated(torrents'[h])
       /\ (/\ torrents'[h].added
           /\ ~LocallyOriginated(torrents'[h])
           /\ published'[h] # published[h]
           /\ published'[h] # Undef)
          => published'[h] = torrents'[h].progress]_vars

\* a downloaded transfer whose verifying and verify events fired and whose
\* progress of 1 is published
C13_Witness ==
  \E h \in Hashes :
    /\ torrents[h].added /\ torrents[h].origin = "added"
    /\ torrents[h].verifyFired
    /\ torrents[h].progress = 1
    /\ published[h] = 1

\* C14: when the engine rejects one rehydrated transfer (its 'error' event:
\* a malformed manifest, a rejection), every other descriptor returned by
\* getAllTorrentMetas stays registered and published, and the error that
\* is reported is the one of a transfer that failed.
C14_FailureIsLocal ==
  /\ rpc = "loaded" =>
       \A i \in 1..Len(metas) :
         ~torrents[metas[i].infoHash].failed =>
           /\ torrents[metas[i].infoHash].added
           /\ torrents[metas[i].infoHash].store = "createOPFSStore"
           /\ published[metas[i].infoHash] # Undef
  /\ error.msg # "" => error.about \in Hashes /\ torrents[error.about].failed

\* two descriptors were returned; the transfer of one failed and the other
\* is registered and published
C14_Witness ==
  /\ Len(metas) = 2
  /\ \E h, g \in Hashes :
       /\ h # g
       /\ torrents[h].failed /\ error.about = h
       /\ torrents[g].added /\ ~torrents[g].failed
       /\ published[g] # Undef /\ published[h] = Undef

\* C15: when clearAllStorage completes without a storage failure, no
\* descriptor is stored and the recursive listing shows the two top-level
\* directories only; and from then on a put through an adapter requested
\* after the clear succeeds and a get of what such a put committed returns
\* it, whether or not the key had an adapter before the clear.
C15_ClearLeavesStoreReady ==
  [][/\ (clear.pc = "remove" /\ clear'.pc = "update" /\ ~clear'.ioFail)
        => /\ \A h \in Hashes : metaFiles'[h] = NoMeta
           /\ getOPFSContents' = {<<d>> : d \in TopDirs}
     /\ (/\ lastCb'.kind = "put" /\ lastCb'.post
         /\ ~lastCb'.ioFail /\ lastCb'.err # "InitFailed")
        => lastCb'.err = ""
     /\ (/\ lastCb'.kind = "get" /\ lastCb'.post /\ ~lastCb'.ioFail
         /\ lastCb'.seen.exists /\ lastCb'.writer.inst = lastCb'.inst)
        => /\ lastCb'.err = ""
           /\ lastCb'.hasData
           /\ lastCb'.data = lastCb'.writer.buf]_vars

\* C16: on a host without the file system the client is still created and
\* becomes ready, every transfer is registered without the adapter factory,
\* nothing is rehydrated, nothing is ever created or stored in the file
\* system, clearAllStorage does nothing, and no error is reported other than
\* the error of a transfer of the engine.
C16_UnsupportedIsVolatile ==
  ~supported =>
    /\ rpc \in {"start", "loaded"}
    /\ \A h \in Hashes : torrents[h].added => torrents[h].store = ""
    /\ metas = <<>>
    /\ rootDirs = {}
    /\ \A h \in Hashes : metaFiles[h] = NoMeta /\ ~dirExists[h]
    /\ getOPFSContents = {}
    /\ nInst = 0
    /\ clear.pc = "idle" /\ clear.n = 0
    /\ error.msg \in {"", "Torrent error"}

\* on a host without the file system a transfer was added, its listeners
\* ran (the descriptor writes are skipped), its progress is published and
\* clearAllStorage was requested
C16_Witness ==
  /\ ~supported
  /\ ClientReady
  /\ clear.tried
  /\ \E h \in Hashes :
       /\ torrents[h].added /\ torrents[h].listening
       /\ torrents[h].origin = "added"
       /\ torrents[h].verifyFired
       /\ published[h] = 1

\* C17: when storeTorrentMeta(d) has completed, getTorrentMeta(d.infoHash)
\* returns a descriptor equal to d in every field, whatever the entry held
\* before (an earlier descriptor of the same identity is replaced), and
\* getAllTorrentMetas returns exactly one descriptor of that identity, d.
C17_DescriptorRoundTrip ==
  (metaCall.op = "store" /\ ~metaCall.threw) =>
    /\ getTorrentMeta(metaCall.hash, FALSE) = metaCall.arg
    /\ \A sq \in getAllTorrentMetas(Hashes) :
         /\ Cardinality({i \in 1..Len(sq) : sq[i].infoHash = metaCall.hash}) = 1
         /\ \E i \in 1..Len(sq) : sq[i] = metaCall.arg

\* a descriptor with an unset flag was stored over a different descriptor
\* of the same identity
C17_Witness ==
  /\ metaCall.op = "store" /\ ~metaCall.threw
  /\ metaCall.prev.state = "ok"
  /\ Parse(metaCall.prev.text) # metaCall.arg
  /\ metaCall.arg.isSeeded = "true"
  /\ metaCall.arg.isVerified = "undefined"
  /\ Descriptor(metaCall.hash) = metaCall.arg

\* C18: a getAllTorrentMetas whose enumeration did not break off returns
\* every stored descriptor that parses exactly once, ordered by createdAt
\* descending, whatever the order of the enumeration and of the stores.
C18_GetAllSortedComplete ==
  (metaCall.op = "getAll" /\ ~metaCall.failed) =>
    /\ SortedDesc(metaCall.all)
    /\ Len(metaCall.all) = Cardinality(ValidMetas)
    /\ \A h \in ValidMetas :
         Cardinality({i \in 1..Len(metaCall.all) : metaCall.all[i] = Descriptor(h)}) = 1

\* the enumeration yielded the older of two descriptors first and the
\* result has the newer one first
C18_Witness ==
  /\ metaCall.op = "getAll" /\ ~metaCall.failed
  /\ Len(metaCall.enum) = 2 /\ Len(metaCall.all) = 2
  /\ Descriptor(metaCall.enum[1]).createdAt < Descriptor(metaCall.enum[2]).createdAt
  /\ metaCall.all[1] = Descriptor(metaCall.enum[2])
  /\ metaCall.all[2] = Descriptor(metaCall.enum[1])

\* C19: an entry whose text does not parse is never fatal: getTorrentMeta
\* of its identity returns null without throwing, and getAllTorrentMetas
\* returns the descriptors of all the other entries it was given and omits
\* that entry only.
C19_MalformedIsSkipped ==
  /\ (metaCall.op = "get" /\ metaCall.prev.state = "malformed") =>
       ~metaCall.threw /\ metaCall.ret = NoDescriptor
  /\ (metaCall.op = "getAll" /\ \E i \in 1..Len(metaCall.enum) : ~Parses(metaCall.enum[i])) =>
       /\ ~metaCall.threw
       /\ {metaCall.all[i].infoHash : i \in 1..Len(metaCall.all)}
            = {metaCall.enum[i] : i \in 1..Len(metaCall.enum)} \cap ValidMetas

\* the enumeration yielded an entry that does not parse and then one that
\* does, and the result is the descriptor of the second
C19_Witness ==
  /\ metaCall.op = "getAll" /\ ~metaCall.failed
  /\ Len(metaCall.enum) = 2
  /\ metaFiles[metaCall.enum[1]].state = "malformed"
  /\ metaFiles[metaCall.enum[2]].state = "ok"
  /\ metaCall.all = <<Descriptor(metaCall.enum[2])>>

\* C20: with puts and gets of an adapter in flight when destroy() is called
\* on it, every call in flight leaves only by a callback of its own kind
\* and adapter, one call per callback; the registry never holds an adapter
\* on which destroy() was called; and every construction returns an adapter
\* on which destroy() was not called.
C20_DestroyWithCallsInFlight ==
  [][/\ \A x \in 1..nInst' :
          store'[x].destroyed =>
            instances'[<<store'[x].infoHash, store'[x].fileIndex>>] # x
     /\ lastNew'.ret # 0 => ~store'[lastNew'.ret].destroyed
     /\ BagCardinality(ops') < BagCardinality(ops) =>
          /\ BagCardinality(ops') = BagCardinality(ops) - 1
          /\ \E op \in BagToSet(ops) :
               /\ CopiesIn(op, ops') = CopiesIn(op, ops) - 1
               /\ lastCb'.kind = op.kind /\ lastCb'.inst = op.inst
               /\ lastCb'.late = op.late]_vars

\* a put issued before destroy() called back without error after it, and a
\* construction for the key has registered another adapter by then
C20_Witness ==
  /\ lastCb.kind = "put" /\ ~lastCb.late /\ lastCb.err = ""
  /\ store[lastCb.inst].destroyed
  /\ instances[KeyOf(lastCb.inst)] \notin {0, lastCb.inst}

\* the initialization task of the adapter has completed successfully and
\* the adapter holds the directory handle it returned
InitDone(x) ==
  /\ store[x].initPromise = "fulfilled"
  /\ store[x].initialized
  /\ store[x].torrentDir = store[x].infoHash

\* C21: writeFile and readFile are invoked for an adapter only when its
\* initialization task has completed successfully and its handle is the one
\* of that task: every put that is in or past its write, every get that is
\* in or past its read.
C21_DriverOnlyAfterInit ==
  /\ \A op \in InFlight :
       (\/ op.kind = "put" /\ op.pc = "write"
        \/ op.kind = "get" /\ op.pc = "read") => InitDone(op.inst)
  /\ (lastCb.kind = "put" /\ lastCb.err # "InitFailed") => InitDone(lastCb.inst)
  /\ (lastCb.kind = "get" /\ lastCb.err # "Store not initialized")
       => InitDone(lastCb.inst)

\* a put issued while the initialization was pending has reached its write
C21_Witness ==
  \E op \in InFlight :
    /\ op.kind = "put" /\ op.pc = "write" /\ op.early
    /\ InitDone(op.inst)

\* C22: the calls on different chunk indices of an adapter are independent
\* under every interleaving of their storage steps: a step of a put changes
\* no entry but the one of its own index, a put that fails leaves every
\* entry of another index as it was, and the data a get of index j returns
\* is what the put that last committed j stored.
C22_IndicesIndependent ==
  [][/\ \A h \in Hashes, n \in Names :
          (files'[h][n] # files[h][n] /\ lastDel' = NoDel) =>
            \/ lastCb'.kind = "put" /\ getChunkFileName(lastCb'.index) = n
            \/ \E op \in BagToSet(ops') :
                 /\ op.kind = "put" /\ op.pc = "write"
                 /\ getChunkFileName(op.index) = n
                 /\ CopiesIn(op, ops') > CopiesIn(op, ops)
     /\ (lastCb'.kind = "put" /\ lastCb'.err # "") =>
          \A h \in Hashes, i \in Indices :
            i # lastCb'.index =>
              files'[h][getChunkFileName(i)] = files[h][getChunkFileName(i)]
     /\ (lastCb'.kind = "get" /\ lastCb'.hasData /\ lastCb'.writer.inst # 0) =>
          /\ lastCb'.writer.index = lastCb'.index
          /\ (lastCb'.off = Undef /\ lastCb'.len = Undef
                => lastCb'.data = lastCb'.writer.buf)]_vars

\* a get of chunk 0 returned what was put there while chunk 1 holds a
\* different buffer and a put of chunk 1 is in its write
C22_Witness ==
  /\ lastCb.kind = "get" /\ lastCb.index = 0 /\ lastCb.hasData
  /\ lastCb.data = <<1>>
  /\ files["h1"][getChunkFileName(1)] = File(<<1, 2>>)
  /\ \E op \in InFlight : op.kind = "put" /\ op.pc = "write" /\ op.index = 1

\* C23: the callback of a put is called without error only when the entry
\* of its index holds exactly its buffer, written through an initialized
\* adapter; and it is called with an error when the initialization was
\* rejected or a storage step of the write failed.
C23_PutSignalsOutcome ==
  lastCb.kind = "put" =>
    /\ lastCb.err = "" =>
         /\ InitDone(lastCb.inst)
         /\ ~lastCb.ioFail
         /\ files[store[lastCb.inst].torrentDir][getChunkFileName(lastCb.index)]
              = File(lastCb.buf)
    /\ (lastCb.ioFail \/ store[lastCb.inst].initPromise = "rejected")
         => lastCb.err # ""

\* a put of two bytes into chunk 1 called back without error
C23_Witness ==
  /\ lastCb.kind = "put" /\ lastCb.err = ""
  /\ lastCb.index = 1 /\ lastCb.buf = <<1, 2>>
  /\ files["h1"][getChunkFileName(1)] = File(<<1, 2>>)

\* C24: a put that completes replaces the whole content of the entry of its
\* index, whatever an earlier put had stored there and however long it was:
\* a whole-chunk read of the entry gives exactly the buffer of the put, and
\* a get that reads an entry returns the buffer of the put that last
\* committed it.
C24_PutReplacesWhole ==
  /\ (lastCb.kind = "put" /\ lastCb.err = "") =>
       LET file == files[store[lastCb.inst].torrentDir][getChunkFileName(lastCb.index)]
       IN  /\ file.exists
           /\ Len(file.data) = Len(lastCb.buf)
           /\ GetRange(file.data, Undef, Undef) = lastCb.buf
  /\ (/\ lastCb.kind = "get" /\ ~lastCb.ioFail
      /\ lastCb.off = Undef /\ lastCb.len = Undef
      /\ lastCb.writer.inst # 0 /\ Len(lastCb.writer.buf) > 0) =>
       lastCb.hasData /\ lastCb.data = lastCb.writer.buf

\* a put of one byte completed on an entry that held two bytes
C24_Witness ==
  /\ lastCb.kind = "put" /\ lastCb.err = ""
  /\ lastCb.replaced = <<1, 2>>
  /\ lastCb.buf = <<1>>
  /\ files[store[lastCb.inst].torrentDir][getChunkFileName(lastCb.index)] = File(<<1>>)

\* C25: the destroy tries to delete every chunk entry it listed, whatever
\* deletions fail: its callback comes only when no listed entry is left
\* untried, and each entry it tried is either one whose deletion failed or
\* is gone after that step.
C25_DestroyTriesEveryChunk ==
  [][/\ lastCb'.kind = "destroy" => lastCb'.left = {}
     /\ \A op \in BagToSet(ops), next \in BagToSet(ops') :
          (/\ op.kind = "destroy" /\ op.pc = "delete"
           /\ next.kind = "destroy" /\ next.pc = "delete"
           /\ next.inst = op.inst
           /\ CopiesIn(op, ops') < CopiesIn(op, ops)
           /\ CopiesIn(next, ops') > CopiesIn(next, ops)
           /\ next.todo \subseteq op.todo /\ next.todo # op.todo) =>
            \A n \in op.todo \ next.todo :
              \/ n \in next.kept
              \/ ~files'[store[op.inst].torrentDir][n].exists]_vars

\* a destroy called back after the deletion of one chunk entry failed (the
\* entry is still there) and the other listed entry was deleted
C25_Witness ==
  /\ lastCb.kind = "destroy" /\ lastCb.err = ""
  /\ store[lastCb.inst].puts = Indices
  /\ \E n, k \in Names :
       /\ n # k
       /\ k \in lastCb.kept /\ files["h1"][k].exists
       /\ n \notin lastCb.kept /\ ~files["h1"][n].exists

\* C26: cleanup never reports a failure: the callback of destroy() is
\* always called without error, and clearAllStorage never reports an error,
\* whatever storage step or initialization failed.
C26_CleanupNeverFails ==
  /\ lastCb.kind = "destroy" => lastCb.err = ""
  /\ error.msg # "Failed to clear storage"

\* C27: deleteFile, deleteTorrentDirectory and deleteTorrentMeta never
\* throw; when the target is absent or its removal fails nothing changes,
\* and when the removal succeeds only the target (a directory with its
\* entries) is gone.
C27_DeleteNeverThrows ==
  [][metaCall'.op \in {"deleteFile", "deleteTorrentDirectory", "delete"} =>
       LET h == metaCall'.hash
       IN  /\ ~metaCall'.threw
           /\ metaCall'.failed =>
                dirExists' = dirExists /\ files' = files /\ metaFiles' = metaFiles
           /\ \A g \in Hashes : g # h =>
                /\ dirExists'[g] = dirExists[g]
                /\ files'[g] = files[g]
                /\ metaFiles'[g] = metaFiles[g]
           /\ metaCall'.op = "deleteFile" =>
                /\ dirExists' = dirExists /\ metaFiles' = metaFiles
                /\ \A n \in Names : n # metaCall'.name => files'[h][n] = files[h][n]
                /\ ~metaCall'.failed => ~files'[h][metaCall'.name].exists
           /\ metaCall'.op = "deleteTorrentDirectory" =>
                /\ metaFiles' = metaFiles
                /\ ~metaCall'.failed =>
                     ~dirExists'[h] /\ \A n \in Names : ~files'[h][n].exists
           /\ metaCall'.op = "delete" =>
                /\ dirExists' = dirExists /\ files' = files
                /\ ~metaCall'.failed => metaFiles'[h] = NoMeta]_vars

\* a deleteFile whose removal failed returned and left the entry, the
\* other entry of the directory and the descriptor in place
C27_Witness ==
  /\ metaCall.op = "deleteFile" /\ metaCall.failed /\ ~metaCall.threw
  /\ files[metaCall.hash][metaCall.name].exists
  /\ \E n \in Names : n # metaCall.name /\ files[metaCall.hash][n].exists
  /\ metaFiles[metaCall.hash].state = "ok"

\* C28: a get that reads a stored chunk of zero length, or a stored chunk
\* whose bytes cannot be read, calls back with (null, null): no error and
\* no buffer, in particular no empty buffer.
C28_EmptyOrUnreadableIsNoData ==
  (/\ lastCb.kind = "get"
   /\ lastCb.seen.exists
   /\ (Len(lastCb.seen.data) = 0 \/ lastCb.ioFail)) =>
     lastCb.err = "" /\ ~lastCb.hasData /\ lastCb.data = <<>>

\* a readable chunk of zero length was read and answered with no data
C28_Witness ==
  /\ lastCb.kind = "get" /\ lastCb.seen = File(<<>>) /\ ~lastCb.ioFail
  /\ lastCb.writer.inst # 0
  /\ lastCb.writer.buf = <<>> /\ lastCb.writer.index = lastCb.index
  /\ lastCb.err = "" /\ ~lastCb.hasData

\* C29: a construction without a transfer identity throws and changes
\* nothing: no object is registered for any key, no object is built and no
\* initialization is started; no adapter ever has the absent identity.
C29_NoIdentityThrows ==
  [][/\ lastNew'.threw =>
          /\ lastNew'.hash = NoHash /\ lastNew'.ret = 0
          /\ instances' = instances
          /\ nInst' = nInst
          /\ store' = store
          /\ ops' = ops
     /\ \A x \in 1..nInst' : store'[x].infoHash # NoHash]_vars

\* a construction without identity threw while an adapter was registered
\* and its initialization was pending
C29_Witness ==
  /\ lastNew.threw /\ lastNew.hash = NoHash
  /\ \E k \in Keys : instances[k] # 0 /\ store[instances[k]].initPromise = "pending"

\* a destroy() was called in this step on the adapter x
DestroyCalled(x) ==
  /\ store'[x].destroyed
  /\ BagCardinality(ops') = BagCardinality(ops) + 1
  /\ \E op \in BagToSet(ops') :
       /\ op.kind = "destroy" /\ op.inst = x /\ op.pc = "await"
       /\ CopiesIn(op, ops') = CopiesIn(op, ops) + 1

\* C30: the registry changes only when a first construction for a key
\* inserts the new adapter and when destroy() removes the key of its
\* adapter; a repeated construction returns the registered adapter; close()
\* calls back without error and changes neither the registry nor the handle
\* nor the storage; a put or get issued after close() on an initialized
\* adapter is not refused and gives the outcome of the rules of put and get.
C30_RegistryFrame ==
  [][/\ instances' # instances =>
          \/ /\ lastNew'.prev = 0 /\ ~lastNew'.threw
             /\ nInst' = nInst + 1 /\ lastNew'.ret = nInst'
             /\ instances' = [instances EXCEPT
                                ![<<lastNew'.hash, lastNew'.fileIndex>>] = nInst']
          \/ \E x \in 1..nInst :
               DestroyCalled(x) /\ instances' = [instances EXCEPT ![KeyOf(x)] = 0]
     /\ lastNew'.prev # 0 =>
          /\ lastNew'.ret = lastNew'.prev
          /\ instances' = instances /\ nInst' = nInst
     /\ lastCb'.kind = "close" =>
          /\ lastCb'.err = ""
          /\ instances' = instances /\ nInst' = nInst
          /\ dirExists' = dirExists /\ files' = files /\ ops' = ops
          /\ \A x \in 1..MaxInst :
               store'[x] = [store[x] EXCEPT !.closed = store'[x].closed]
     /\ (lastCb'.kind \in {"put", "get"} /\ lastCb'.shut
           /\ store'[lastCb'.inst].initialized) =>
          /\ lastCb'.err \notin {"Store not initialized", "InitFailed"}
          /\ (lastCb'.kind = "put" /\ lastCb'.err = "") =>
               files'[store'[lastCb'.inst].torrentDir][getChunkFileName(lastCb'.index)]
                 = File(lastCb'.buf)
          /\ (lastCb'.kind = "put" /\ lastCb'.err # "") =>
               lastCb'.ioFail \/ \E y \in 1..nInst : store[y].destroyed
          /\ lastCb'.kind = "get" =>
               /\ lastCb'.err = ""
               /\ lastCb'.hasData <=> Len(lastCb'.seen.data) > 0
               /\ lastCb'.data = GetRange(lastCb'.seen.data, lastCb'.off, lastCb'.len)]_vars

\* a get issued after close() on a registered adapter returned the chunk
\* that a put of the same adapter had written
C30_Witness ==
  /\ lastCb.kind = "get" /\ lastCb.shut /\ lastCb.hasData
  /\ lastCb.data = <<1>>
  /\ lastCb.writer.inst = lastCb.inst
  /\ instances[KeyOf(lastCb.inst)] = lastCb.inst
  /\ ~store[lastCb.inst].destroyed

InitFailed(x) == x \in 1..nInst /\ store[x].initPromise = "rejected"

\* C32: an adapter whose initialization failed is never initialized again
\* (the task stays rejected, createTorrentDirectory is not called again);
\* it stays registered until a destroy() for its key; every put on it
\* calls back with the initialization error, every get with an error, and
\* a construction for its key returns it and builds nothing.
C32_FailedInitIsFinal ==
  [][/\ \A x \in 1..MaxInst : InitFailed(x) =>
          /\ store'[x].initPromise = "rejected"
          /\ ~store'[x].initialized /\ store'[x].torrentDir = NoHash
          /\ store'[x].initCalls = 1
          /\ instances[KeyOf(x)] = x =>
               \/ instances'[KeyOf(x)] = x
               \/ \E y \in 1..nInst : KeyOf(y) = KeyOf(x) /\ DestroyCalled(y)
     /\ \A x \in 1..MaxInst :
          (store'[x].initPromise = "rejected" /\ store[x].initPromise = "pending")
             => instances' = instances
     /\ (lastCb'.kind = "put" /\ InitFailed(lastCb'.inst)) =>
          lastCb'.err = "InitFailed"
     /\ (lastCb'.kind = "get" /\ InitFailed(lastCb'.inst)) =>
          lastCb'.err # "" /\ ~lastCb'.hasData
     /\ (lastNew'.hash # NoHash
           /\ InitFailed(instances[<<lastNew'.hash, lastNew'.fileIndex>>])) =>
          /\ lastNew'.ret = instances[<<lastNew'.hash, lastNew'.fileIndex>>]
          /\ nInst' = nInst /\ instances' = instances]_vars

\* a put on the failed adapter reported the initialization error while the
\* adapter was still registered
C32_Witness ==
  /\ lastCb.kind = "put" /\ lastCb.err = "InitFailed" /\ ~lastCb.early
  /\ InitFailed(lastCb.inst)
  /\ instances[KeyOf(lastCb.inst)] = lastCb.inst

\* C33: the callback of a put, get or destroy is invoked exactly once: no
\* invocation is the second one of its call.
C33_CallbackOnce ==
  lastCb.kind \in {"put", "get", "destroy"} => lastCb.nth = 1

\* C34: the destroy of an earlier adapter of a key never removes an entry
\* whose content was committed through the adapter now registered for that
\* key, and a whole-chunk get through the registered adapter of a chunk it
\* has put (with bytes, the read not failing) returns the bytes.
C34_SuccessorDataSurvives ==
  /\ (/\ lastDel.by # 0 /\ lastDel.writer # 0
      /\ lastDel.writer # lastDel.by
      /\ KeyOf(lastDel.writer) = KeyOf(lastDel.by))
     => instances[KeyOf(lastDel.writer)] # lastDel.writer
  /\ (/\ lastCb.kind = "get" /\ lastCb.err = "" /\ ~lastCb.ioFail
      /\ instances[KeyOf(lastCb.inst)] = lastCb.inst
      /\ lastCb.index \in store[lastCb.inst].puts
      /\ \A y \in Live : y # lastCb.inst =>
            (store[y].puts = {} /\ KeyOf(y) = KeyOf(lastCb.inst)))
     => lastCb.hasData \/ lastCb.seen = File(<<>>)

\* C35: once removeTorrent has returned for a transfer with its descriptor
\* and its directory deleted, and the user has not added the transfer
\* again, the descriptor and the directory stay absent: no callback that
\* was suspended when the transfer was removed re-creates them.
C35_RemovalIsFinal ==
  \A h \in Hashes :
    (inflight[h].removed /\ ~torrents[h].added) =>
      metaFiles[h] = NoMeta /\ ~dirExists[h]

\* C36: a descriptor write that replaces the stored descriptor of a
\* transfer keeps its infoHash, its createdAt and its isSeeded.
C36_RepersistKeepsKeys ==
  [][\A h \in Hashes :
       (metaFiles[h].state = "ok" /\ metaFiles'[h].state = "ok") =>
         /\ Parse(metaFiles'[h].text).infoHash = Parse(metaFiles[h].text).infoHash
         /\ Parse(metaFiles'[h].text).createdAt = Parse(metaFiles[h].text).createdAt
         /\ Parse(metaFiles'[h].text).isSeeded = Parse(metaFiles[h].text).isSeeded]_vars

\* the transfer of h is registered from a descriptor in this step
Rehydrated(h) ==
  torrents'[h].added /\ torrents'[h].origin = "rehydrated" /\ ~torrents[h].added

\* C37: the descriptors are read only when initialize() has succeeded and
\* the client is ready; the transfers are re-registered only after they
\* were read, all in the step that ends the loading; the loading ends only
\* there, or at once on an unsupported host or when initialize() failed;
\* and after a failed initialize() nothing is read and nothing registered.
C37_StartupOrder ==
  [][/\ (rpc' = "idle" /\ rpc # "idle") =>
          /\ rpc = "start" /\ supported
          /\ rootDirs' = TopDirs
          /\ error'.msg # "Initialization failed"
     /\ (rpc' = "listed" /\ rpc # "listed") =>
          rpc = "idle" /\ supported /\ \A h \in Hashes : ~torrents[h].added
     /\ metas' # metas => rpc = "idle" /\ rpc' = "listed"
     /\ (\E h \in Hashes : Rehydrated(h)) =>
          /\ rpc = "listed" /\ rpc' = "loaded"
          /\ \A i \in 1..Len(metas) : torrents'[metas[i].infoHash].added
     /\ (rpc' = "loaded" /\ rpc # "loaded") =>
          \/ rpc = "start" /\ ~supported
          \/ /\ rpc = "listed"
             /\ \A i \in 1..Len(metas) : torrents'[metas[i].infoHash].added
     /\ rpc = "dead" =>
          /\ rpc' = "dead" /\ metas' = <<>>
          /\ \A h \in Hashes : torrents'[h].origin # "rehydrated"
     /\ (rpc' = "dead" /\ rpc # "dead") =>
          rpc = "start" /\ error'.msg = "Initialization failed"]_vars

\* the loading has just ended with a stored transfer re-registered
C37_Witness ==
  /\ justLoaded /\ rpc = "loaded" /\ supported
  /\ Len(metas) > 0
  /\ \A i \in 1..Len(metas) :
       torrents[metas[i].infoHash].added
         /\ torrents[metas[i].infoHash].origin = "rehydrated"

====
